---- MODULE Spec2Model ----
(***************************************************************************)
(* Cross-cluster backup engine of ClientDB (src/src/connectdb.ts):         *)
(* incremental backup, delta backup, weekly full snapshot and retention    *)
(* cleanup, modelled as state machines over a source and a target cluster. *)
(***************************************************************************)
EXTENDS Integers, Sequences, FiniteSets, TLC

VARIABLES
    clock,      \* the wall clock read by `new Date()`
    srcC,       \* source cluster: database name -> collection name -> _id -> document
    tgtC,       \* target cluster, same shape
    pc,         \* per invocation: the await the invocation is suspended at
    run,        \* per invocation: the locals of the running engine function
    app,        \* which application owns the source data (fixed by Init)
    many,       \* the frame of a running many-databases function
    mongoClient,\* global._mongoClient of the CRUD accessor: a client, or none
    created,    \* how many times `new MongoClient(DB_URI, mongoOptions)` has run
    instance,   \* per ClientDB instance: this.client and whether this.collection is set
    conn        \* per connect() invocation: where it is suspended, and its locals

vars == <<clock, srcC, tgtC, pc, run, app, many, mongoClient, created, instance, conn>>

\* the state of the backup engine, and the state of the CRUD accessor
engine == <<clock, srcC, tgtC, pc, run, app, many>>
crud == <<mongoClient, created, instance, conn>>

-----------------------------------------------------------------------------
(* Bounds of the model *)

\* the clock takes the values 1..MaxClock
MaxClock == 2

-----------------------------------------------------------------------------
(* Names and identities *)

\* database names are character sequences
AppDb == <<"a", "p", "p">>

MetaColl == "_backup_meta"

\* BSON identities: an ObjectId (12 bytes, written as 24 hex digits) or a string
HexA == "aaaaaaaaaaaaaaaaaaaaaaaa"
HexB == "bbbbbbbbbbbbbbbbbbbbbbbb"
Hex24 == {HexA, HexB}

Oid(h) == [kind |-> "oid", s |-> h]
Str(s) == [kind |-> "str", s |-> s]

IncrementalId == Str("incremental")

\* the empty collection / the empty database
Empty == <<>>

-----------------------------------------------------------------------------
(* The document store, as the driver calls used by the engine behave *)

\* db.collection(name).find({}) on a cluster: a missing database or collection reads as empty
GetColl(cluster, db, name) ==
    IF db \in DOMAIN cluster /\ name \in DOMAIN cluster[db]
    THEN cluster[db][name]
    ELSE Empty

GetDb(cluster, db) == IF db \in DOMAIN cluster THEN cluster[db] ELSE Empty

\* a write creates the database and the collection implicitly
PutColl(cluster, db, name, coll) ==
    LET old == GetDb(cluster, db)
        new == [n \in DOMAIN old \cup {name} |-> IF n = name THEN coll ELSE old[n]]
    IN  [d \in DOMAIN cluster \cup {db} |-> IF d = db THEN new ELSE cluster[d]]

PutDoc(coll, id, doc) ==
    [i \in DOMAIN coll \cup {id} |-> IF i = id THEN doc ELSE coll[i]]

\* { $set: fields } applied to a document: the named fields are written, the others kept
SetFields(old, fields) ==
    [k \in DOMAIN old \cup DOMAIN fields |->
        IF k \in DOMAIN fields THEN fields[k] ELSE old[k]]

\* (mutant) the upsert rewrites the collection and keeps only the written document
UpsertSet_DropOthers(coll, id, doc) ==
    [i \in {id} |-> doc]

\* updateOne({ _id }, { $set: doc }, { upsert: true })
UpsertSet(coll, id, doc) ==
    IF id \in DOMAIN coll
    THEN PutDoc(coll, id, SetFields(coll[id], doc))
    ELSE PutDoc(coll, id, doc)

\* (mutant) $gte in place of $gt
FindUpdatedAfter_Gte(coll, t) ==
    LET ids == {i \in DOMAIN coll :
                    "updatedAt" \in DOMAIN coll[i] /\ coll[i].updatedAt >= t}
    IN  [i \in ids |-> coll[i]]

\* find({ updatedAt: { $gt: t } }): documents that have the field and a later value
FindUpdatedAfter(coll, t) ==
    LET ids == {i \in DOMAIN coll :
                    "updatedAt" \in DOMAIN coll[i] /\ coll[i].updatedAt > t}
    IN  [i \in ids |-> coll[i]]

\* all orders in which the store may enumerate a set of names
Perms(S) ==
    {s \in [1..Cardinality(S) -> S] :
        \A i, j \in 1..Cardinality(S) : i # j => s[i] # s[j]}

-----------------------------------------------------------------------------
(* Strings and numbers, as the template literal, startsWith, replace, split and *)
(* Number of JavaScript treat them; a string is a sequence of characters        *)

DigitChars == <<"0", "1", "2", "3", "4", "5", "6", "7", "8", "9">>

\* `${n}` for a non-negative integer: its decimal digits
RECURSIVE NumberToString(_)
NumberToString(n) ==
    IF n < 10 THEN <<DigitChars[n + 1]>>
    ELSE NumberToString(n \div 10) \o <<DigitChars[(n % 10) + 1]>>

IsDigit(c) == \E d \in 1..10 : DigitChars[d] = c

DigitValue(c) == (CHOOSE d \in 1..10 : DigitChars[d] = c) - 1

RECURSIVE DigitsValue(_)
DigitsValue(str) ==
    IF str = <<>> THEN 0
    ELSE 10 * DigitsValue(SubSeq(str, 1, Len(str) - 1)) + DigitValue(str[Len(str)])

\* the result of Number(x): a number, or NaN
NaN == [nan |-> TRUE, v |-> 0]
Num(n) == [nan |-> FALSE, v |-> n]

\* what `parts[i]` yields past the end of the array
Undefined == <<"undefined">>

\* Number(x) on undefined, on the empty string, on decimal digits, on other text.
\* (Text here is letters and digits: no sign, blank, dot or exponent form occurs.)
ToNumber(x) ==
    IF x = Undefined THEN NaN
    ELSE IF x = <<>> THEN Num(0)
    ELSE IF \A i \in 1..Len(x) : IsDigit(x[i]) THEN Num(DigitsValue(x))
    ELSE NaN

\* a < b and a === b on numbers: false whenever a side is NaN
JsLess(a, b) == ~a.nan /\ ~b.nan /\ a.v < b.v
JsEqual(a, b) == ~a.nan /\ ~b.nan /\ a.v = b.v

\* name.startsWith(prefix)
StartsWith(str, prefix) ==
    Len(str) >= Len(prefix) /\ SubSeq(str, 1, Len(prefix)) = prefix

\* str.replace(pattern, ""): the first occurrence of the pattern is removed
ReplaceFirst(str, pattern) ==
    LET at == {i \in 1..(Len(str) - Len(pattern) + 1) :
                    SubSeq(str, i, i + Len(pattern) - 1) = pattern}
    IN  IF at = {} THEN str
        ELSE LET i == CHOOSE k \in at : \A m \in at : k <= m
             IN  SubSeq(str, 1, i - 1) \o SubSeq(str, i + Len(pattern), Len(str))

\* str.split("-")
RECURSIVE Split(_)
Split(str) ==
    LET dashes == {i \in 1..Len(str) : str[i] = "-"}
    IN  IF dashes = {} THEN <<str>>
        ELSE LET i == CHOOSE k \in dashes : \A m \in dashes : k <= m
             IN  <<SubSeq(str, 1, i - 1)>> \o Split(SubSeq(str, i + 1, Len(str)))

\* parts[i], zero-based
At(parts, i) == IF i + 1 <= Len(parts) THEN parts[i + 1] ELSE Undefined

WeekInfix == <<"-", "w", "e", "e", "k", "-">>

\* (mutant) the name carries the week but not the week-year
SnapshotDbName_WeekOnly(dbName, week, year) ==
    dbName \o WeekInfix \o NumberToString(week)

\* (mutant) `${dbName}-week-${year}-${week}`
SnapshotDbName_YearFirst(dbName, week, year) ==
    dbName \o WeekInfix \o NumberToString(year) \o <<"-">> \o NumberToString(week)

\* `${dbName}-week-${week}-${year}`
SnapshotDbName(dbName, week, year) ==
    dbName \o WeekInfix \o NumberToString(week) \o <<"-">> \o NumberToString(year)

-----------------------------------------------------------------------------
(* The ISO calendar of date-fns: getISOWeek, getISOWeekYear, subWeeks.          *)
(* An instant is counted in whole weeks; instant 1 lies in week 53 of 2020.     *)

\* the ISO week-year in which week index 0 begins, and the index of instant 0
FirstYear == 2019
ClockOrigin == 103

\* ISO week-years with 53 weeks
LongYears == {2015, 2020, 2026, 2032}

WeeksInYear(y) == IF y \in LongYears THEN 53 ELSE 52

RECURSIVE ISOFrom(_, _)
ISOFrom(y, index) ==
    IF index < WeeksInYear(y) THEN [year |-> y, week |-> index + 1]
    ELSE ISOFrom(y + 1, index - WeeksInYear(y))

GetISOWeek(t) == ISOFrom(FirstYear, ClockOrigin + t).week
GetISOWeekYear(t) == ISOFrom(FirstYear, ClockOrigin + t).year

\* subWeeks(date, amount)
SubWeeks(t, amount) == t - amount

-----------------------------------------------------------------------------
(* Invocations *)

Procs == {1}

\* the locals of an engine function that has not been called
IdleRun ==
    [mode |-> "none", sourceDb |-> <<>>, targetDb |-> <<>>,
     srcOpen |-> FALSE, tgtOpen |-> FALSE,
     lastBackupAt |-> 0, now |-> 0,
     collections |-> <<>>, ci |-> 1, pending |-> Empty, tgtIds |-> {},
     found |-> 0, report |-> <<>>, totalDocs |-> 0,
     week |-> 0, year |-> 0,
     dbs |-> <<>>, keepArg |-> <<>>, keepWeeks |-> 0, names |-> {},
     cutoffWeek |-> 0, cutoffYear |-> 0, toDrop |-> {},
     matches |-> {}, parsedWeek |-> NaN, parsedYear |-> NaN,
     \* history: the target database when the function was called, the await
     \* at which it threw, the states the source database went through meanwhile
     tgt0 |-> Empty, cluster0 |-> Empty, failedAt |-> "none", seen |-> {},
     \* history: how often the function has read and written the checkpoint record
     metaReads |-> 0, metaWrites |-> 0]

\* the frame of a many-databases function that has not been called; calls and
\* cleanups are history: the engine calls made so far, in the order made
IdleMany ==
    [mode |-> "none", phase |-> "idle", dbList |-> <<>>,
     keepArg |-> <<>>, keepWeeks |-> 0, i |-> 1,
     results |-> <<>>, calls |-> <<>>, cleanups |-> <<>>]

\* the stored checkpoint as the engine reads it: meta?.lastBackupAt ? ... : new Date(0)
ReadCheckpoint(cluster, db) ==
    LET metaCol == GetColl(cluster, db, MetaColl)
    IN  IF IncrementalId \in DOMAIN metaCol
           /\ "lastBackupAt" \in DOMAIN metaCol[IncrementalId]
        THEN metaCol[IncrementalId].lastBackupAt
        ELSE 0

\* (mutant) the checkpoint collection is copied like any other
SkipMeta_None(collections, i) == i

\* `if (name === "_backup_meta") continue;` of the incremental loop
RECURSIVE SkipMeta(_, _)
SkipMeta(collections, i) ==
    IF i <= Len(collections) /\ collections[i] = MetaColl
    THEN SkipMeta(collections, i + 1)
    ELSE i

\* the head of `for (const c of collections)`: the index of the next collection
\* the body runs for (only the incremental engine skips the checkpoint collection)
LoopIndex(r, i) ==
    IF r.mode = "incremental" THEN SkipMeta(r.collections, i) ELSE i

LoopHead(r, i) ==
    [r EXCEPT !.ci = LoopIndex(r, i), !.pending = Empty, !.tgtIds = {}]

\* (mutant) the incremental engine writes its checkpoint after every collection
LoopPc_CheckpointEach(r, i) ==
    IF r.mode = "incremental" /\ i > 1 THEN "checkpoint"
    ELSE IF LoopIndex(r, i) <= Len(r.collections)
    THEN (CASE r.mode = "incremental" -> "find"
            [] r.mode = "delta" -> "targetIds"
            [] OTHER -> "findAll")
    ELSE (IF r.mode = "incremental" THEN "checkpoint" ELSE "closeSource")

\* where the function continues: the loop body, or the statement after the loop
LoopPc(r, i) ==
    IF LoopIndex(r, i) <= Len(r.collections)
    THEN (CASE r.mode = "incremental" -> "find"
            [] r.mode = "delta" -> "targetIds"
            [] OTHER -> "findAll")
    ELSE (IF r.mode = "incremental" THEN "checkpoint" ELSE "closeSource")

-----------------------------------------------------------------------------
(* ClientDB.incrementalBackupOneDatabase *)

\* a call incrementalBackupOneDatabase({ targetUri, sourceDb, targetDb })
IncrementalCall(p, sourceDb, targetDb) ==
    /\ pc[p] = "idle"
    /\ pc' = [pc EXCEPT ![p] = "connectSource"]
    /\ run' = [run EXCEPT ![p] =
                [IdleRun EXCEPT !.mode = "incremental",
                                !.sourceDb = sourceDb, !.targetDb = targetDb,
                                !.tgt0 = GetDb(tgtC, targetDb),
                                !.cluster0 = tgtC]]
    /\ UNCHANGED <<crud, clock, srcC, tgtC, app>>

IncrementalStart(p) ==
    /\ IncrementalCall(p, AppDb, AppDb)
    /\ UNCHANGED many

\* await ClientDB._connectExternal(process.env.MONGODB_URI)
ConnectSource(p) ==
    /\ pc[p] = "connectSource"
    /\ run' = [run EXCEPT ![p].srcOpen = TRUE]
    /\ pc' = [pc EXCEPT ![p] = "connectTarget"]
    /\ UNCHANGED <<crud, clock, srcC, tgtC, app, many>>

\* await ClientDB._connectExternal(targetUri)
ConnectTarget(p) ==
    /\ pc[p] = "connectTarget"
    /\ run' = [run EXCEPT ![p].tgtOpen = TRUE]
    /\ pc' = [pc EXCEPT ![p] =
                CASE run[p].mode = "incremental" -> "readMeta"
                  [] run[p].mode = "delta" -> "list"
                  [] run[p].mode = "fullsync" -> "drop"
                  [] OTHER -> "listDatabases"]
    /\ UNCHANGED <<crud, clock, srcC, tgtC, app, many>>

\* const meta = await metaCol.findOne({ _id: "incremental" })
ReadMeta(p) ==
    /\ pc[p] = "readMeta"
    /\ run' = [run EXCEPT ![p].lastBackupAt = ReadCheckpoint(tgtC, run[p].targetDb),
                          ![p].metaReads = @ + 1]
    /\ pc' = [pc EXCEPT ![p] = "now"]
    /\ UNCHANGED <<crud, clock, srcC, tgtC, app, many>>

\* const now = new Date()
CaptureNow(p) ==
    /\ pc[p] = "now"
    /\ run' = [run EXCEPT ![p].now = clock]
    /\ pc' = [pc EXCEPT ![p] = "list"]
    /\ UNCHANGED <<crud, clock, srcC, tgtC, app, many>>

\* const collections = await src.listCollections().toArray(), then the loop head
ListCollections(p) ==
    /\ pc[p] = "list"
    /\ \E cs \in Perms(DOMAIN GetDb(srcC, run[p].sourceDb)) :
          LET r == [run[p] EXCEPT !.collections = cs]
          IN  /\ run' = [run EXCEPT ![p] = LoopHead(r, 1)]
              /\ pc' = [pc EXCEPT ![p] = LoopPc(r, 1)]
    /\ UNCHANGED <<crud, clock, srcC, tgtC, app, many>>

\* (mutant) a collection without documents gets no report entry
Push_NoZero(r, n) ==
    LET r2 == [r EXCEPT !.report = Append(@, [collection |-> r.collections[r.ci],
                                                 count |-> n])]
    IN  IF n = 0 THEN LoopHead(r, r.ci + 1) ELSE LoopHead(r2, r.ci + 1)

\* report.push({ collection: name, upserted | inserted: <count> }) and the loop head
Push(r, n) ==
    LET r2 == [r EXCEPT !.report = Append(@, [collection |-> r.collections[r.ci],
                                                 count |-> n])]
    IN  LoopHead(r2, r.ci + 1)

\* const changedDocs = await srcCol.find({ updatedAt: { $gt: lastBackupAt } }).toArray()
IncFind(p) ==
    /\ pc[p] = "find"
    /\ run[p].mode = "incremental"
    /\ LET r == run[p]
           name == r.collections[r.ci]
           srcCol == GetColl(srcC, r.sourceDb, name)
           changedDocs == FindUpdatedAfter(srcCol, r.lastBackupAt)
           n == Cardinality(DOMAIN changedDocs)
           r2 == [r EXCEPT !.pending = changedDocs, !.found = n]
       IN  IF n = 0
           THEN /\ run' = [run EXCEPT ![p] = Push(r2, 0)]
                /\ pc' = [pc EXCEPT ![p] = LoopPc(r2, r.ci + 1)]
           ELSE /\ run' = [run EXCEPT ![p] = r2]
                /\ pc' = [pc EXCEPT ![p] = "upsert"]
    /\ UNCHANGED <<crud, clock, srcC, tgtC, app, many>>

\* await tgtCol.updateOne({ _id: doc._id }, { $set: doc }, { upsert: true })
IncUpsert(p) ==
    /\ pc[p] = "upsert"
    /\ LET r == run[p]
           name == r.collections[r.ci]
           tgtCol == GetColl(tgtC, r.targetDb, name)
           n == r.found
       IN  \E id \in DOMAIN r.pending :
              LET rest == [i \in DOMAIN r.pending \ {id} |-> r.pending[i]]
                  r2 == [r EXCEPT !.pending = rest]
              IN  /\ tgtC' = PutColl(tgtC, r.targetDb, name,
                                     UpsertSet(tgtCol, id, r.pending[id]))
                  /\ IF DOMAIN rest = {}
                     THEN /\ run' = [run EXCEPT ![p] = Push(r2, n)]
                          /\ pc' = [pc EXCEPT ![p] = LoopPc(r2, r.ci + 1)]
                     ELSE /\ run' = [run EXCEPT ![p] = r2]
                          /\ pc' = pc
    /\ UNCHANGED <<crud, clock, srcC, app, many>>

\* (mutant) a run that copied nothing falls back to the epoch default
CheckpointFields_Epoch(r) ==
    [lastBackupAt |->
        IF \A i \in 1..Len(r.report) : r.report[i].count = 0 THEN 0 ELSE r.now]

\* (mutant) an optimistic check: a stored checkpoint that is newer is kept
CheckpointFields_Max(r) ==
    [lastBackupAt |->
        IF ReadCheckpoint(tgtC, r.targetDb) > r.now
        THEN ReadCheckpoint(tgtC, r.targetDb) ELSE r.now]

\* (mutant) the checkpoint is the time of the write, the run's completion time
CheckpointFields_Completion(r) == [lastBackupAt |-> clock]

\* { lastBackupAt: now }
CheckpointFields(r) == [lastBackupAt |-> r.now]

\* await metaCol.updateOne({ _id: "incremental" }, { $set: { lastBackupAt: now } }, { upsert: true })
WriteCheckpoint(p) ==
    /\ pc[p] = "checkpoint"
    /\ LET r == run[p]
           metaCol == GetColl(tgtC, r.targetDb, MetaColl)
       IN  tgtC' = PutColl(tgtC, r.targetDb, MetaColl,
                           UpsertSet(metaCol, IncrementalId, CheckpointFields(r)))
    /\ run' = [run EXCEPT ![p].metaWrites = @ + 1]
    /\ pc' = [pc EXCEPT ![p] = "closeSource"]
    /\ UNCHANGED <<crud, clock, srcC, app, many>>

-----------------------------------------------------------------------------
(* ClientDB.deltaBackupOneDatabase *)

\* a call deltaBackupOneDatabase({ targetUri, sourceDb, targetDb })
DeltaCall(p, sourceDb, targetDb) ==
    /\ pc[p] = "idle"
    /\ pc' = [pc EXCEPT ![p] = "connectSource"]
    /\ run' = [run EXCEPT ![p] =
                [IdleRun EXCEPT !.mode = "delta",
                                !.sourceDb = sourceDb, !.targetDb = targetDb,
                                !.tgt0 = GetDb(tgtC, targetDb),
                                !.cluster0 = tgtC]]
    /\ UNCHANGED <<crud, clock, srcC, tgtC, app>>

DeltaStart(p) ==
    /\ DeltaCall(p, AppDb, AppDb)
    /\ UNCHANGED many

\* String(d._id): the hex digits of an ObjectId, a string as it is
StringOf(id) == id.s

\* new ObjectId(s) accepts 24 hex digits and throws on any other string
ObjectIdAccepts(s) == s \in Hex24

\* new Set((await tgtCol.find({}, { projection: { _id: 1 } }).toArray()).map(d => String(d._id)))
DeltaTargetIds(p) ==
    /\ pc[p] = "targetIds"
    /\ LET r == run[p]
           tgtCol == GetColl(tgtC, r.targetDb, r.collections[r.ci])
       IN  run' = [run EXCEPT ![p].tgtIds = {StringOf(id) : id \in DOMAIN tgtCol}]
    /\ pc' = [pc EXCEPT ![p] = "findNew"]
    /\ UNCHANGED <<crud, clock, srcC, tgtC, app, many>>

\* find({ _id: { $nin: <the ObjectIds> } }): documents whose _id equals none of them
FindNotIn(coll, oids) ==
    [i \in DOMAIN coll \ oids |-> coll[i]]

\* const newDocs = await srcCol.find({ _id: { $nin: Array.from(tgtIds).map(id => new ObjectId(id)) } }).toArray()
DeltaFindNew(p) ==
    /\ pc[p] = "findNew"
    /\ LET r == run[p]
           srcCol == GetColl(srcC, r.sourceDb, r.collections[r.ci])
           newDocs == FindNotIn(srcCol, {Oid(s) : s \in r.tgtIds})
           n == Cardinality(DOMAIN newDocs)
           r2 == [r EXCEPT !.pending = newDocs, !.found = n]
       IN  IF \E s \in r.tgtIds : ~ObjectIdAccepts(s)
           THEN /\ run' = [run EXCEPT ![p].failedAt = "objectId"]
                /\ pc' = [pc EXCEPT ![p] = "failed"]
           ELSE IF n = 0
           THEN /\ run' = [run EXCEPT ![p] = Push(r2, 0)]
                /\ pc' = [pc EXCEPT ![p] = LoopPc(r2, r.ci + 1)]
           ELSE /\ run' = [run EXCEPT ![p] = r2]
                /\ pc' = [pc EXCEPT ![p] = "insertMany"]
    /\ UNCHANGED <<crud, clock, srcC, tgtC, app, many>>

\* insertMany(docs): ordered, so the documents before the first duplicate _id are
\* inserted and the call then rejects; without a duplicate all are inserted
InsertSome(coll, docs, ids) ==
    [i \in DOMAIN coll \cup ids |-> IF i \in DOMAIN coll THEN coll[i] ELSE docs[i]]

\* if (newDocs.length) await tgtCol.insertMany(newDocs)
DeltaInsertMany(p) ==
    /\ pc[p] = "insertMany"
    /\ run[p].mode = "delta"
    /\ LET r == run[p]
           name == r.collections[r.ci]
           tgtCol == GetColl(tgtC, r.targetDb, name)
           dups == DOMAIN r.pending \cap DOMAIN tgtCol
       IN  IF dups = {}
           THEN /\ tgtC' = PutColl(tgtC, r.targetDb, name,
                                   InsertSome(tgtCol, r.pending, DOMAIN r.pending))
                /\ run' = [run EXCEPT ![p] = Push(r, r.found)]
                /\ pc' = [pc EXCEPT ![p] = LoopPc(r, r.ci + 1)]
           ELSE /\ \E before \in SUBSET (DOMAIN r.pending \ dups) :
                      tgtC' = IF before = {} THEN tgtC
                              ELSE PutColl(tgtC, r.targetDb, name,
                                           InsertSome(tgtCol, r.pending, before))
                /\ run' = [run EXCEPT ![p].failedAt = "duplicateKey"]
                /\ pc' = [pc EXCEPT ![p] = "failed"]
    /\ UNCHANGED <<crud, clock, srcC, app, many>>

-----------------------------------------------------------------------------
(* ClientDB.fullSyncOneDatabase *)

BaseA == <<"a">>
BaseB == <<"a", "-", "b">>

\* db.dropDatabase(): dropping a database that does not exist is a no-op
DropDatabase(cluster, db) ==
    [d \in DOMAIN cluster \ {db} |-> cluster[d]]

\* (mutant) the snapshot of the week is kept and written over
DropSnapshot_Keep(cluster, db) == cluster

\* await tgt.dropDatabase() of the week's snapshot database
DropSnapshot(cluster, db) == DropDatabase(cluster, db)

\* const now = new Date(); week, year and snapshotDbName are derived before connecting
FullSyncCall(p, dbName) ==
    /\ pc[p] = "idle"
    /\ pc' = [pc EXCEPT ![p] = "connectSource"]
    /\ run' = [run EXCEPT ![p] =
                [IdleRun EXCEPT !.mode = "fullsync",
                                !.sourceDb = dbName,
                                !.now = clock,
                                !.week = GetISOWeek(clock),
                                !.year = GetISOWeekYear(clock),
                                !.targetDb = SnapshotDbName(dbName, GetISOWeek(clock),
                                                            GetISOWeekYear(clock)),
                                !.cluster0 = tgtC,
                                !.seen = {GetDb(srcC, dbName)}]]
    /\ UNCHANGED <<crud, clock, srcC, tgtC, app>>

FullSyncStart(p) ==
    /\ FullSyncCall(p, BaseA)
    /\ UNCHANGED many

FullDrop(p) ==
    /\ pc[p] = "drop"
    /\ tgtC' = DropSnapshot(tgtC, run[p].targetDb)
    /\ pc' = [pc EXCEPT ![p] = "list"]
    /\ UNCHANGED <<crud, clock, srcC, run, app, many>>

\* const docs = await srcCol.find({}).toArray()
FullFind(p) ==
    /\ pc[p] = "findAll"
    /\ LET r == run[p]
           docs == GetColl(srcC, r.sourceDb, r.collections[r.ci])
           n == Cardinality(DOMAIN docs)
           r2 == [r EXCEPT !.pending = docs, !.found = n]
       IN  IF n = 0
           THEN /\ run' = [run EXCEPT ![p] = Push(r2, 0)]
                /\ pc' = [pc EXCEPT ![p] = LoopPc(r2, r.ci + 1)]
           ELSE /\ run' = [run EXCEPT ![p] = r2]
                /\ pc' = [pc EXCEPT ![p] = "insertMany"]
    /\ UNCHANGED <<crud, clock, srcC, tgtC, app, many>>

\* if (docs.length > 0) { await tgtCol.insertMany(docs); totalDocs += docs.length; }
FullInsertMany(p) ==
    /\ pc[p] = "insertMany"
    /\ run[p].mode = "fullsync"
    /\ LET r == run[p]
           name == r.collections[r.ci]
           tgtCol == GetColl(tgtC, r.targetDb, name)
           dups == DOMAIN r.pending \cap DOMAIN tgtCol
           r2 == [r EXCEPT !.totalDocs = @ + r.found]
       IN  IF dups = {}
           THEN /\ tgtC' = PutColl(tgtC, r.targetDb, name,
                                   InsertSome(tgtCol, r.pending, DOMAIN r.pending))
                /\ run' = [run EXCEPT ![p] = Push(r2, r.found)]
                /\ pc' = [pc EXCEPT ![p] = LoopPc(r2, r.ci + 1)]
           ELSE /\ \E before \in SUBSET (DOMAIN r.pending \ dups) :
                      tgtC' = IF before = {} THEN tgtC
                              ELSE PutColl(tgtC, r.targetDb, name,
                                           InsertSome(tgtCol, r.pending, before))
                /\ run' = [run EXCEPT ![p].failedAt = "duplicateKey"]
                /\ pc' = [pc EXCEPT ![p] = "failed"]
    /\ UNCHANGED <<crud, clock, srcC, app, many>>

-----------------------------------------------------------------------------
(* ClientDB.cleanupSnapshots *)

DefaultKeepWeeks == 26

\* the optional argument keepWeeks: left out, or a number
NoArg == [given |-> FALSE, v |-> 0]
Arg(n) == [given |-> TRUE, v |-> n]

\* (mutant) params.keepWeeks || 26: a supplied 0 falls back to the default
KeepWeeksOrDefault_Falsy(k) == IF k.given /\ k.v # 0 THEN k.v ELSE DefaultKeepWeeks

\* params.keepWeeks ?? 26
KeepWeeksOrDefault(k) == IF k.given THEN k.v ELSE DefaultKeepWeeks

\* a call cleanupSnapshots({ targetURI, dbs, keepWeeks })
CleanupCall(p, dbs, keepWeeks) ==
    /\ pc[p] = "idle"
    /\ pc' = [pc EXCEPT ![p] = "connectTarget"]
    /\ run' = [run EXCEPT ![p] =
                [IdleRun EXCEPT !.mode = "cleanup",
                                !.dbs = dbs,
                                !.keepArg = keepWeeks,
                                !.keepWeeks = KeepWeeksOrDefault(keepWeeks),
                                !.cluster0 = tgtC]]
    /\ UNCHANGED <<crud, clock, srcC, tgtC, app>>

CleanupStart(p, dbs, keepWeeks) ==
    /\ CleanupCall(p, dbs, keepWeeks)
    /\ UNCHANGED many

\* const all = await admin.listDatabases(); names = all.databases.map(d => d.name)
ListDatabases(p) ==
    /\ pc[p] = "listDatabases"
    /\ run' = [run EXCEPT ![p].names = DOMAIN tgtC]
    /\ pc' = [pc EXCEPT ![p] = "cutoff"]
    /\ UNCHANGED <<crud, clock, srcC, tgtC, app, many>>

\* (mutant) a snapshot of the cutoff week itself counts as old
IsOld_Inclusive(week, year, cutoffWeek, cutoffYear) ==
    \/ JsLess(year, cutoffYear)
    \/ (JsEqual(year, cutoffYear) /\ (JsLess(week, cutoffWeek) \/ JsEqual(week, cutoffWeek)))

\* year < cutoffYear || (year === cutoffYear && week < cutoffWeek)
IsOld(week, year, cutoffWeek, cutoffYear) ==
    \/ JsLess(year, cutoffYear)
    \/ (JsEqual(year, cutoffYear) /\ JsLess(week, cutoffWeek))

\* the body of `for (const dbName of matches)` up to the test of isOld
JudgedOld(dbName, prefix, cutoffWeek, cutoffYear) ==
    LET parts == Split(ReplaceFirst(dbName, prefix))
        week == ToNumber(At(parts, 0))
        year == ToNumber(At(parts, 1))
    IN  IsOld(week, year, Num(cutoffWeek), Num(cutoffYear))

\* (mutant) the outer loop runs over every base the deployment knows, not over dbs
OldSnapshots_AllBases(names, dbs, cutoffWeek, cutoffYear) ==
    {dbName \in names :
        \E base \in {BaseA, BaseB} :
            LET prefix == base \o WeekInfix
            IN  StartsWith(dbName, prefix)
                /\ JudgedOld(dbName, prefix, cutoffWeek, cutoffYear)}

\* the databases the two loops reach the drop for
OldSnapshots(names, dbs, cutoffWeek, cutoffYear) ==
    {dbName \in names :
        \E b \in 1..Len(dbs) :
            LET prefix == dbs[b] \o WeekInfix
            IN  StartsWith(dbName, prefix)
                /\ JudgedOld(dbName, prefix, cutoffWeek, cutoffYear)}

\* const cutoff = subWeeks(new Date(), keepWeeks), its ISO week and week-year; the
\* loops then run without an await up to the first database judged old
ComputeCutoff(p) ==
    /\ pc[p] = "cutoff"
    /\ LET r == run[p]
           cutoff == SubWeeks(clock, r.keepWeeks)
           cutoffWeek == GetISOWeek(cutoff)
           cutoffYear == GetISOWeekYear(cutoff)
           old == OldSnapshots(r.names, r.dbs, cutoffWeek, cutoffYear)
       IN  /\ run' = [run EXCEPT ![p] =
                        [r EXCEPT !.now = clock, !.cutoffWeek = cutoffWeek,
                                  !.cutoffYear = cutoffYear, !.toDrop = old]]
           /\ pc' = [pc EXCEPT ![p] = IF old = {} THEN "closeTarget" ELSE "dropOld"]
    /\ UNCHANGED <<crud, clock, srcC, tgtC, app, many>>

\* await client.db(dbName).dropDatabase(), in the order the store listed the names
DropOld(p) ==
    /\ pc[p] = "dropOld"
    /\ \E dbName \in run[p].toDrop :
          /\ tgtC' = DropDatabase(tgtC, dbName)
          /\ run' = [run EXCEPT ![p].toDrop = @ \ {dbName}]
          /\ pc' = [pc EXCEPT ![p] =
                      IF run[p].toDrop = {dbName} THEN "closeTarget" ELSE "dropOld"]
    /\ UNCHANGED <<crud, clock, srcC, app, many>>

-----------------------------------------------------------------------------
(* The tail shared by the engines *)

\* await sourceClient.close()
CloseSource(p) ==
    /\ pc[p] = "closeSource"
    /\ run' = [run EXCEPT ![p].srcOpen = FALSE]
    /\ pc' = [pc EXCEPT ![p] = "closeTarget"]
    /\ UNCHANGED <<crud, clock, srcC, tgtC, app, many>>

\* await targetClient.close(), then the function returns its report
CloseTarget(p) ==
    /\ pc[p] = "closeTarget"
    /\ run' = [run EXCEPT ![p].tgtOpen = FALSE]
    /\ pc' = [pc EXCEPT ![p] = "done"]
    /\ UNCHANGED <<crud, clock, srcC, tgtC, app, many>>

\* an awaited driver call rejects: nothing catches it, the function's promise rejects
AwaitPoints == {"connectSource", "connectTarget", "readMeta", "list", "find",
                "upsert", "checkpoint", "targetIds", "findNew", "insertMany",
                "drop", "findAll", "listDatabases", "dropOld"}

\* (mutant) the checkpoint is written on the way out of a failed run as well
Throw_WritesCheckpoint(p) ==
    /\ pc[p] \in AwaitPoints
    /\ run' = [run EXCEPT ![p].failedAt = pc[p]]
    /\ pc' = [pc EXCEPT ![p] = "failed"]
    /\ tgtC' = IF run[p].mode = "incremental" /\ run[p].now > 0
               THEN PutColl(tgtC, run[p].targetDb, MetaColl,
                            PutDoc(GetColl(tgtC, run[p].targetDb, MetaColl),
                                   IncrementalId, [lastBackupAt |-> run[p].now]))
               ELSE tgtC
    /\ UNCHANGED <<crud, clock, srcC, app, many>>

\* (mutant) a failing run tidies up by dropping the database it was to write
Throw_DropsTarget(p) ==
    /\ pc[p] \in AwaitPoints
    /\ run' = [run EXCEPT ![p].failedAt = pc[p]]
    /\ pc' = [pc EXCEPT ![p] = "failed"]
    /\ tgtC' = DropDatabase(tgtC, run[p].targetDb)
    /\ UNCHANGED <<crud, clock, srcC, app, many>>

Throw(p) ==
    /\ pc[p] \in AwaitPoints
    /\ run' = [run EXCEPT ![p].failedAt = pc[p]]
    /\ pc' = [pc EXCEPT ![p] = "failed"]
    /\ UNCHANGED <<crud, clock, srcC, tgtC, app, many>>

\* the caller has the result (or the error); the locals are gone
Return(p) ==
    /\ pc[p] \in {"done", "failed"}
    /\ pc' = [pc EXCEPT ![p] = "idle"]
    /\ run' = [run EXCEPT ![p] = IdleRun]
    /\ UNCHANGED <<crud, clock, srcC, tgtC, app, many>>

-----------------------------------------------------------------------------
(* The many-databases functions: incrementalBackupManyDatabases,              *)
(* deltaBackupManyDatabases, fullSyncManyDatabases                            *)

\* where a many-databases function stands once `for (const dbName of dbList)` has
\* reached index i: in the loop, or past it
AfterLoop(m, i) ==
    IF i <= Len(m.dbList) THEN "loop"
    ELSE IF m.mode = "fullsync" THEN "cleanup"
    ELSE "done"

\* the frame at the loop head for the first name
ManyFrame(mode, dbList, keepArg, keepWeeks) ==
    LET m == [IdleMany EXCEPT !.mode = mode, !.dbList = dbList,
                              !.keepArg = keepArg, !.keepWeeks = keepWeeks]
    IN  [m EXCEPT !.phase = AfterLoop(m, 1)]

\* incrementalBackupManyDatabases(targetUri, dbList)
IncrementalManyStart(dbList) ==
    /\ many.phase = "idle"
    /\ \A p \in Procs : pc[p] = "idle"
    /\ many' = ManyFrame("incremental", dbList, NoArg, 0)
    /\ UNCHANGED <<crud, clock, srcC, tgtC, pc, run, app>>

\* deltaBackupManyDatabases(targetUri, dbList)
DeltaManyStart(dbList) ==
    /\ many.phase = "idle"
    /\ \A p \in Procs : pc[p] = "idle"
    /\ many' = ManyFrame("delta", dbList, NoArg, 0)
    /\ UNCHANGED <<crud, clock, srcC, tgtC, pc, run, app>>

\* fullSyncManyDatabases({ targetURI, dbs, keepWeeks }); keepWeeks = params.keepWeeks ?? 26
FullSyncManyStart(dbs, keepWeeks) ==
    /\ many.phase = "idle"
    /\ \A p \in Procs : pc[p] = "idle"
    /\ many' = ManyFrame("fullsync", dbs, keepWeeks, KeepWeeksOrDefault(keepWeeks))
    /\ UNCHANGED <<crud, clock, srcC, tgtC, pc, run, app>>

\* const r = await ClientDB.incrementalBackupOneDatabase({ targetUri, sourceDb: dbName, targetDb: dbName })
IncrementalManyCall(p) ==
    /\ many.phase = "loop"
    /\ many.mode = "incremental"
    /\ IncrementalCall(p, many.dbList[many.i], many.dbList[many.i])
    /\ many' = [many EXCEPT !.calls = Append(@, many.dbList[many.i])]

\* const r = await ClientDB.deltaBackupOneDatabase({ targetUri, sourceDb: dbName, targetDb: dbName })
DeltaManyCall(p) ==
    /\ many.phase = "loop"
    /\ many.mode = "delta"
    /\ DeltaCall(p, many.dbList[many.i], many.dbList[many.i])
    /\ many' = [many EXCEPT !.calls = Append(@, many.dbList[many.i])]

\* const r = await ClientDB.fullSyncOneDatabase({ sourceUri, targetUri: targetURI, dbName })
FullSyncManyCall(p) ==
    /\ many.phase = "loop"
    /\ many.mode = "fullsync"
    /\ FullSyncCall(p, many.dbList[many.i])
    /\ many' = [many EXCEPT !.calls = Append(@, many.dbList[many.i])]

\* the object a single-database engine returns
ResultOf(r) ==
    [mode |-> r.mode, sourceDb |-> r.sourceDb, targetDb |-> r.targetDb,
     report |-> r.report]

\* (mutant) results.unshift(r)
PushResult_Front(results, r) == <<r>> \o results

\* allResults.push(r) / results.push(r)
PushResult(results, r) == Append(results, r)

\* the awaited engine call has returned: push its result, go to the next name
ManyPush(p) ==
    /\ many.phase = "loop"
    /\ pc[p] = "done"
    /\ many' = [many EXCEPT !.results = PushResult(@, ResultOf(run[p])),
                            !.i = @ + 1,
                            !.phase = AfterLoop(many, many.i + 1)]
    /\ pc' = [pc EXCEPT ![p] = "idle"]
    /\ run' = [run EXCEPT ![p] = IdleRun]
    /\ UNCHANGED <<crud, clock, srcC, tgtC, app>>

\* await ClientDB.cleanupSnapshots({ targetURI, dbs, keepWeeks })
FullSyncManyCleanup(p) ==
    /\ many.phase = "cleanup"
    /\ CleanupCall(p, many.dbList, Arg(many.keepWeeks))
    /\ many' = [many EXCEPT !.phase = "cleaning",
                            !.cleanups = Append(@, [dbs |-> many.dbList,
                                                    keepWeeks |-> many.keepWeeks,
                                                    after |-> Len(many.results)])]

\* cleanupSnapshots has returned: return { mode: "full-sync", results }
FullSyncManyCleaned(p) ==
    /\ many.phase = "cleaning"
    /\ pc[p] = "done"
    /\ many' = [many EXCEPT !.phase = "done"]
    /\ pc' = [pc EXCEPT ![p] = "idle"]
    /\ run' = [run EXCEPT ![p] = IdleRun]
    /\ UNCHANGED <<crud, clock, srcC, tgtC, app>>

\* the awaited call has rejected: nothing catches it, the many-databases function rejects
ManyThrow(p) ==
    /\ many.phase \in {"loop", "cleaning"}
    /\ pc[p] = "failed"
    /\ many' = [many EXCEPT !.phase = "failed"]
    /\ pc' = [pc EXCEPT ![p] = "idle"]
    /\ run' = [run EXCEPT ![p] = IdleRun]
    /\ UNCHANGED <<crud, clock, srcC, tgtC, app>>

\* the caller has the outer report (or the error)
ManyReturn ==
    /\ many.phase \in {"done", "failed"}
    /\ many' = IdleMany
    /\ UNCHANGED <<crud, clock, srcC, tgtC, pc, run, app>>

-----------------------------------------------------------------------------
(* The CRUD accessor: getMongoClient and ClientDB.connect. The k-th client made *)
(* by `new MongoClient` is the number k.                                        *)

\* global._mongoClient undefined; this.client not assigned
NoClient == 0

\* the ClientDB instances of the process and the connect() invocations under way
Instances == {1, 2}
ConnectCalls == {1, 2, 3}

IdleConn == [at |-> "idle", inst |-> 0, client |-> NoClient]

\* no instance has connected, nothing is cached
CrudIdle ==
    /\ mongoClient = NoClient
    /\ created = 0
    /\ instance = [i \in Instances |-> [client |-> NoClient, collection |-> FALSE]]
    /\ conn = [c \in ConnectCalls |-> IdleConn]

\* instance i calls connect(): with this.collection set it returns at once; otherwise
\* it calls getMongoClient(), which returns the cached client if there is one, and
\* otherwise makes a client and awaits client.connect()
ConnectCall(c, i) ==
    /\ conn[c].at = "idle"
    /\ IF instance[i].collection
       THEN /\ conn' = [conn EXCEPT ![c] = [at |-> "done", inst |-> i, client |-> NoClient]]
            /\ UNCHANGED <<mongoClient, created>>
       ELSE IF mongoClient # NoClient
       THEN /\ conn' = [conn EXCEPT ![c] = [at |-> "resolved", inst |-> i,
                                            client |-> mongoClient]]
            /\ UNCHANGED <<mongoClient, created>>
       ELSE /\ created' = created + 1
            /\ UNCHANGED mongoClient
            /\ conn' = [conn EXCEPT ![c] = [at |-> "connecting", inst |-> i,
                                            client |-> created + 1]]
    /\ UNCHANGED <<instance, engine>>

\* await client.connect() has resolved: global._mongoClient = client; return client
Connected(c) ==
    /\ conn[c].at = "connecting"
    /\ mongoClient' = conn[c].client
    /\ conn' = [conn EXCEPT ![c].at = "resolved"]
    /\ UNCHANGED <<created, instance, engine>>

\* this.client = await getMongoClient(); this.collection = db.collection(...)
AssignClient(c) ==
    /\ conn[c].at = "resolved"
    /\ instance' = [instance EXCEPT ![conn[c].inst] =
                       [client |-> conn[c].client, collection |-> TRUE]]
    /\ conn' = [conn EXCEPT ![c].at = "done"]
    /\ UNCHANGED <<mongoClient, created, engine>>

\* the caller has the settled promise of connect()
ConnectReturn(c) ==
    /\ conn[c].at = "done"
    /\ conn' = [conn EXCEPT ![c] = IdleConn]
    /\ UNCHANGED <<mongoClient, created, instance, engine>>

InitConnect ==
    /\ clock = 1
    /\ srcC = Empty
    /\ tgtC = Empty
    /\ pc = [p \in Procs |-> "idle"]
    /\ run = [p \in Procs |-> IdleRun]
    /\ app = "crud"
    /\ many = IdleMany
    /\ CrudIdle

NextConnect ==
    \/ \E c \in ConnectCalls : \E i \in Instances : ConnectCall(c, i)
    \/ \E c \in ConnectCalls : Connected(c)
    \/ \E c \in ConnectCalls : AssignClient(c)
    \/ \E c \in ConnectCalls : ConnectReturn(c)

SpecConnect == InitConnect /\ [][NextConnect]_vars

-----------------------------------------------------------------------------
(* The environment: time passes, the application writes to the source *)

Tick ==
    /\ clock < MaxClock
    /\ clock' = clock + 1
    /\ UNCHANGED <<crud, srcC, tgtC, pc, run, app, many>>

\* the collections of each application, and the identities and documents it
\* writes: "shop" keys its documents by ObjectId, stamps updatedAt on its orders and
\* keeps untimestamped users; "legacy" has orders keyed by an ObjectId or by a string;
\* "weekly" writes orders next to a collection of logs that stays empty; "chained" is
\* a database that is itself the target of an incremental backup from elsewhere, so
\* it holds orders, users and the checkpoint collection of that backup; "evolving" writes
\* orders with or without an optional field; "live" writes orders and users; the
\* databases of "archive" are not written
AppColls(a) ==
    IF a \in {"legacy", "weekly", "evolving"} THEN {"orders"}
    ELSE IF a = "chained" THEN {"orders", "users", MetaColl}
    ELSE {"orders", "users"}

SrcIds(a, name) ==
    IF name = MetaColl THEN {IncrementalId}
    ELSE IF a \in {"chained", "live", "evolving"} THEN {Oid(HexA)}
    ELSE IF a = "legacy" THEN {Oid(HexA), Str(HexA), Str("order-1")}
    ELSE IF name = "orders" THEN {Oid(HexA), Oid(HexB)}
    ELSE {Oid(HexA)}

\* the source database the application writes to
AppSourceDb(a) == IF a \in {"weekly", "live"} THEN BaseA ELSE AppDb

DocsAt(a, name, id, t) ==
    IF name = MetaColl THEN {[lastBackupAt |-> t]}
    ELSE IF a = "evolving" THEN {[updatedAt |-> t], [updatedAt |-> t, note |-> 1]}
    ELSE IF name = "users" \/ (a = "weekly" /\ id = Oid(HexB)) THEN {[f |-> 1]}
    ELSE {[updatedAt |-> t]}

SrcWrite ==
    /\ \E name \in AppColls(app) : \E id \in SrcIds(app, name) :
       \E doc \in DocsAt(app, name, id, clock) :
          srcC' = PutColl(srcC, AppSourceDb(app), name,
                          PutDoc(GetColl(srcC, AppSourceDb(app), name), id, doc))
    /\ UNCHANGED <<crud, clock, tgtC, pc, run, app, many>>

SrcDelete ==
    /\ \E name \in AppColls(app) :
       \E id \in DOMAIN GetColl(srcC, AppSourceDb(app), name) :
          LET coll == GetColl(srcC, AppSourceDb(app), name)
          IN  srcC' = PutColl(srcC, AppSourceDb(app), name,
                              [i \in DOMAIN coll \ {id} |-> coll[i]])
    /\ UNCHANGED <<crud, clock, tgtC, pc, run, app, many>>

-----------------------------------------------------------------------------
(* Sequential use: one engine invocation at a time *)

Init ==
    /\ clock = 1
    /\ srcC = Empty
    /\ tgtC = Empty
    /\ pc = [p \in Procs |-> "idle"]
    /\ run = [p \in Procs |-> IdleRun]
    /\ app = "shop"
    /\ many = IdleMany
    /\ CrudIdle

Next ==
    \/ \E p \in Procs : IncrementalStart(p)
    \/ \E p \in Procs : ConnectSource(p)
    \/ \E p \in Procs : ConnectTarget(p)
    \/ \E p \in Procs : ReadMeta(p)
    \/ \E p \in Procs : CaptureNow(p)
    \/ \E p \in Procs : ListCollections(p)
    \/ \E p \in Procs : IncFind(p)
    \/ \E p \in Procs : IncUpsert(p)
    \/ \E p \in Procs : WriteCheckpoint(p)
    \/ \E p \in Procs : DeltaStart(p)
    \/ \E p \in Procs : DeltaTargetIds(p)
    \/ \E p \in Procs : DeltaFindNew(p)
    \/ \E p \in Procs : DeltaInsertMany(p)
    \/ \E p \in Procs : CloseSource(p)
    \/ \E p \in Procs : CloseTarget(p)
    \/ \E p \in Procs : Throw(p)
    \/ \E p \in Procs : Return(p)
    \/ Tick
    \/ SrcWrite
    \/ SrcDelete

Spec == Init /\ [][Next]_vars

-----------------------------------------------------------------------------
(* Backups of an application whose documents gain and lose a field *)

InitEvolving ==
    /\ clock = 1
    /\ srcC = Empty
    /\ tgtC = Empty
    /\ pc = [p \in Procs |-> "idle"]
    /\ run = [p \in Procs |-> IdleRun]
    /\ app = "evolving"
    /\ many = IdleMany
    /\ CrudIdle

SpecEvolving == InitEvolving /\ [][Next]_vars

-----------------------------------------------------------------------------
(* Delta backups of the legacy application, taken while the application is stopped *)

Quiet == \A p \in Procs : pc[p] = "idle"

QuietWrite == Quiet /\ SrcWrite

QuietDelete == Quiet /\ SrcDelete

InitLegacy ==
    /\ clock = 1
    /\ srcC = Empty
    /\ tgtC = Empty
    /\ pc = [p \in Procs |-> "idle"]
    /\ run = [p \in Procs |-> IdleRun]
    /\ app = "legacy"
    /\ many = IdleMany
    /\ CrudIdle

NextLegacy ==
    \/ \E p \in Procs : DeltaStart(p)
    \/ \E p \in Procs : ConnectSource(p)
    \/ \E p \in Procs : ConnectTarget(p)
    \/ \E p \in Procs : ListCollections(p)
    \/ \E p \in Procs : DeltaTargetIds(p)
    \/ \E p \in Procs : DeltaFindNew(p)
    \/ \E p \in Procs : DeltaInsertMany(p)
    \/ \E p \in Procs : CloseSource(p)
    \/ \E p \in Procs : CloseTarget(p)
    \/ \E p \in Procs : Throw(p)
    \/ \E p \in Procs : Return(p)
    \/ Tick
    \/ QuietWrite
    \/ QuietDelete

SpecLegacy == InitLegacy /\ [][NextLegacy]_vars

-----------------------------------------------------------------------------
(* Backups of a database that is itself a backup target, taken while it is quiet *)

InitChained ==
    /\ clock = 1
    /\ srcC = Empty
    /\ tgtC = Empty
    /\ pc = [p \in Procs |-> "idle"]
    /\ run = [p \in Procs |-> IdleRun]
    /\ app = "chained"
    /\ many = IdleMany
    /\ CrudIdle

NextChained ==
    \/ \E p \in Procs : IncrementalStart(p)
    \/ \E p \in Procs : ReadMeta(p)
    \/ \E p \in Procs : CaptureNow(p)
    \/ \E p \in Procs : IncFind(p)
    \/ \E p \in Procs : IncUpsert(p)
    \/ \E p \in Procs : WriteCheckpoint(p)
    \/ NextLegacy

SpecChained == InitChained /\ [][NextChained]_vars

-----------------------------------------------------------------------------
(* Weekly snapshots of one database and retention cleanup, one call at a time *)

\* databases found on the target cluster that the engine did not create
Name_Old == <<"a", "-", "w", "e", "e", "k", "-", "5", "2", "-", "2", "0", "2", "0">>
Name_BadWeek == <<"a", "-", "w", "e", "e", "k", "-", "x", "-", "2", "0", "2", "0">>
Name_EmptyYear == <<"a", "-", "w", "e", "e", "k", "-", "5", "-">>
Name_NoYear == <<"a", "-", "w", "e", "e", "k", "-", "5">>
Name_Extra == <<"a", "-", "w", "e", "e", "k", "-", "5", "-", "2", "0", "2", "0", "-", "x">>
Name_OtherBase == BaseB \o <<"-", "w", "e", "e", "k", "-", "5", "2", "-", "2", "0", "2", "0">>
Name_Unrelated == <<"c">>
Name_Source == BaseA

FoundNames == {Name_Old, Name_BadWeek, Name_EmptyYear, Name_NoYear, Name_Extra,
               Name_OtherBase, Name_Unrelated, Name_Source}

FoundDb == [data |-> [i \in {Oid(HexA)} |-> [f |-> 1]]]

\* the arguments cleanupSnapshots is called with
CleanupLists == {<<BaseA>>, <<BaseA, BaseB>>}
KeepWeeksArgs == {NoArg, Arg(0), Arg(1)}

InitFull ==
    /\ clock = 1
    /\ srcC = [d \in {BaseA} |->
                 [orders |-> [i \in {Oid(HexA)} |-> [updatedAt |-> 1]],
                  logs |-> Empty]]
    /\ \E found \in {{}} \cup {{n} : n \in FoundNames} :
          tgtC = [d \in found |-> FoundDb]
    /\ pc = [p \in Procs |-> "idle"]
    /\ run = [p \in Procs |-> IdleRun]
    /\ app = "weekly"
    /\ many = IdleMany
    /\ CrudIdle

NextFull ==
    \/ \E p \in Procs : FullSyncStart(p)
    \/ \E p \in Procs : ConnectSource(p)
    \/ \E p \in Procs : ConnectTarget(p)
    \/ \E p \in Procs : FullDrop(p)
    \/ \E p \in Procs : ListCollections(p)
    \/ \E p \in Procs : FullFind(p)
    \/ \E p \in Procs : FullInsertMany(p)
    \/ \E p \in Procs : CloseSource(p)
    \/ \E p \in Procs : CloseTarget(p)
    \/ \E p \in Procs : \E dbs \in CleanupLists : \E k \in KeepWeeksArgs :
          CleanupStart(p, dbs, k)
    \/ \E p \in Procs : ListDatabases(p)
    \/ \E p \in Procs : ComputeCutoff(p)
    \/ \E p \in Procs : DropOld(p)
    \/ \E p \in Procs : Throw(p)
    \/ \E p \in Procs : Return(p)
    \/ Tick
    \/ QuietWrite
    \/ QuietDelete

SpecFull == InitFull /\ [][NextFull]_vars

-----------------------------------------------------------------------------
(* Weekly snapshots of a database whose application keeps writing *)

\* a running full sync goes through another state of its source database
Observe(r, cluster) ==
    IF r.mode = "fullsync" THEN [r EXCEPT !.seen = @ \cup {GetDb(cluster, r.sourceDb)}]
    ELSE r

LiveWrite ==
    /\ \E name \in AppColls(app) : \E id \in SrcIds(app, name) :
       \E doc \in DocsAt(app, name, id, clock) :
          srcC' = PutColl(srcC, AppSourceDb(app), name,
                          PutDoc(GetColl(srcC, AppSourceDb(app), name), id, doc))
    /\ run' = [p \in DOMAIN run |-> Observe(run[p], srcC')]
    /\ UNCHANGED <<crud, clock, tgtC, pc, app, many>>

LiveDelete ==
    /\ \E name \in AppColls(app) :
       \E id \in DOMAIN GetColl(srcC, AppSourceDb(app), name) :
          LET coll == GetColl(srcC, AppSourceDb(app), name)
          IN  srcC' = PutColl(srcC, AppSourceDb(app), name,
                              [i \in DOMAIN coll \ {id} |-> coll[i]])
    /\ run' = [p \in DOMAIN run |-> Observe(run[p], srcC')]
    /\ UNCHANGED <<crud, clock, tgtC, pc, app, many>>

InitLive ==
    /\ clock = 1
    /\ srcC = Empty
    /\ tgtC = Empty
    /\ pc = [p \in Procs |-> "idle"]
    /\ run = [p \in Procs |-> IdleRun]
    /\ app = "live"
    /\ many = IdleMany
    /\ CrudIdle

NextLive ==
    \/ \E p \in Procs : FullSyncStart(p)
    \/ \E p \in Procs : ConnectSource(p)
    \/ \E p \in Procs : ConnectTarget(p)
    \/ \E p \in Procs : FullDrop(p)
    \/ \E p \in Procs : ListCollections(p)
    \/ \E p \in Procs : FullFind(p)
    \/ \E p \in Procs : FullInsertMany(p)
    \/ \E p \in Procs : CloseSource(p)
    \/ \E p \in Procs : CloseTarget(p)
    \/ \E p \in Procs : Return(p)
    \/ LiveWrite
    \/ LiveDelete

SpecLive == InitLive /\ [][NextLive]_vars

-----------------------------------------------------------------------------
(* Two callers: incremental backups of the same database that may overlap *)

Callers == {1, 2}

InitRace ==
    /\ clock = 1
    /\ srcC = [d \in {AppDb} |->
                 [orders |-> [i \in {Oid(HexA)} |-> [updatedAt |-> 1]]]]
    /\ tgtC = Empty
    /\ pc = [p \in Callers |-> "idle"]
    /\ run = [p \in Callers |-> IdleRun]
    /\ app = "archive"
    /\ many = IdleMany
    /\ CrudIdle

NextRace ==
    \/ \E p \in Callers : IncrementalStart(p)
    \/ \E p \in Callers : ConnectSource(p)
    \/ \E p \in Callers : ConnectTarget(p)
    \/ \E p \in Callers : ReadMeta(p)
    \/ \E p \in Callers : CaptureNow(p)
    \/ \E p \in Callers : ListCollections(p)
    \/ \E p \in Callers : IncFind(p)
    \/ \E p \in Callers : IncUpsert(p)
    \/ \E p \in Callers : WriteCheckpoint(p)
    \/ \E p \in Callers : CloseSource(p)
    \/ \E p \in Callers : CloseTarget(p)
    \/ \E p \in Callers : Return(p)
    \/ Tick

SpecRace == InitRace /\ [][NextRace]_vars

-----------------------------------------------------------------------------
(* The many-databases functions over two databases that are not written meanwhile, *)
(* within one week; the target holds a snapshot of an earlier week                  *)

\* the longest list of database names a caller passes
MaxList == 2

DbLists == UNION {[1..n -> {BaseA, BaseB}] : n \in 0..MaxList}

InitMany ==
    /\ clock = 1
    /\ srcC = [d \in {BaseA, BaseB} |->
                 [orders |-> [i \in {Oid(HexA)} |-> [updatedAt |-> 1]]]]
    /\ tgtC = [d \in {Name_Old} |-> FoundDb]
    /\ pc = [p \in Procs |-> "idle"]
    /\ run = [p \in Procs |-> IdleRun]
    /\ app = "archive"
    /\ many = IdleMany
    /\ CrudIdle

NextMany ==
    \/ \E dbList \in DbLists : IncrementalManyStart(dbList)
    \/ \E dbList \in DbLists : DeltaManyStart(dbList)
    \/ \E dbs \in DbLists : \E k \in KeepWeeksArgs : FullSyncManyStart(dbs, k)
    \/ \E p \in Procs : IncrementalManyCall(p)
    \/ \E p \in Procs : DeltaManyCall(p)
    \/ \E p \in Procs : FullSyncManyCall(p)
    \/ \E p \in Procs : ManyPush(p)
    \/ \E p \in Procs : FullSyncManyCleanup(p)
    \/ \E p \in Procs : FullSyncManyCleaned(p)
    \/ \E p \in Procs : ManyThrow(p)
    \/ ManyReturn
    \/ \E p \in Procs : ConnectSource(p)
    \/ \E p \in Procs : ConnectTarget(p)
    \/ \E p \in Procs : ReadMeta(p)
    \/ \E p \in Procs : CaptureNow(p)
    \/ \E p \in Procs : ListCollections(p)
    \/ \E p \in Procs : IncFind(p)
    \/ \E p \in Procs : IncUpsert(p)
    \/ \E p \in Procs : WriteCheckpoint(p)
    \/ \E p \in Procs : DeltaTargetIds(p)
    \/ \E p \in Procs : DeltaFindNew(p)
    \/ \E p \in Procs : DeltaInsertMany(p)
    \/ \E p \in Procs : FullDrop(p)
    \/ \E p \in Procs : FullFind(p)
    \/ \E p \in Procs : FullInsertMany(p)
    \/ \E p \in Procs : ListDatabases(p)
    \/ \E p \in Procs : ComputeCutoff(p)
    \/ \E p \in Procs : DropOld(p)
    \/ \E p \in Procs : CloseSource(p)
    \/ \E p \in Procs : CloseTarget(p)
    \/ \E p \in Procs : Throw(p)

SpecMany == InitMany /\ [][NextMany]_vars

-----------------------------------------------------------------------------
(* fullSyncManyDatabases over the same two databases while the weeks pass *)

NextRollover ==
    \/ \E dbs \in DbLists : \E k \in KeepWeeksArgs : FullSyncManyStart(dbs, k)
    \/ \E p \in Procs : FullSyncManyCall(p)
    \/ \E p \in Procs : ManyPush(p)
    \/ \E p \in Procs : FullSyncManyCleanup(p)
    \/ \E p \in Procs : FullSyncManyCleaned(p)
    \/ \E p \in Procs : ManyThrow(p)
    \/ ManyReturn
    \/ \E p \in Procs : ConnectSource(p)
    \/ \E p \in Procs : ConnectTarget(p)
    \/ \E p \in Procs : FullDrop(p)
    \/ \E p \in Procs : ListCollections(p)
    \/ \E p \in Procs : FullFind(p)
    \/ \E p \in Procs : FullInsertMany(p)
    \/ \E p \in Procs : ListDatabases(p)
    \/ \E p \in Procs : ComputeCutoff(p)
    \/ \E p \in Procs : DropOld(p)
    \/ \E p \in Procs : CloseSource(p)
    \/ \E p \in Procs : CloseTarget(p)
    \/ \E p \in Procs : Throw(p)
    \/ Tick

SpecRollover == InitMany /\ [][NextRollover]_vars

-----------------------------------------------------------------------------
(* Properties of the incremental and delta engines under sequential use *)

CopyLoopPoints == {"list", "find", "upsert", "targetIds", "findNew", "insertMany",
                   "objectId", "duplicateKey"}

\* a collection of the database as it was when the invocation began
Before(r, name) == IF name \in DOMAIN r.tgt0 THEN r.tgt0[name] ELSE Empty

\* C1: every document that was in a target collection when an incremental or delta
\* run began is in that collection, under the same identity, at every later point of
\* the run and when the run has ended, by return or by failure.
C1_NoDelete ==
    \A p \in Procs :
        run[p].mode \in {"incremental", "delta"} =>
            \A name \in DOMAIN run[p].tgt0 : \A id \in DOMAIN run[p].tgt0[name] :
                id \in DOMAIN GetColl(tgtC, run[p].targetDb, name)

\* a finished run has left in the target a document the source no longer holds
C1_Witness ==
    \E p \in Procs :
        /\ pc[p] \in {"done", "failed"}
        /\ run[p].mode \in {"incremental", "delta"}
        /\ \E i \in 1..Len(run[p].report) : run[p].report[i].count > 0
        /\ \E id \in DOMAIN Before(run[p], "orders") :
              id \notin DOMAIN GetColl(srcC, AppDb, "orders")

\* the documents an incremental run must select from a source collection, given
\* the checkpoint now stored in the target (epoch when there is no record)
Expected(p) ==
    LET r == run[p]
        srcCol == GetColl(srcC, r.sourceDb, r.collections[r.ci])
        stored == IF IncrementalId \in DOMAIN GetColl(tgtC, r.targetDb, MetaColl)
                  THEN GetColl(tgtC, r.targetDb, MetaColl)[IncrementalId].lastBackupAt
                  ELSE 0
    IN  {id \in DOMAIN srcCol :
            "updatedAt" \in DOMAIN srcCol[id] /\ srcCol[id].updatedAt > stored}

SelectStep(p) ==
    (pc[p] = "find" /\ run[p].mode = "incremental" /\ run'[p] # run[p]
        /\ pc'[p] # "failed")
    => /\ run[p].collections[run[p].ci] # MetaColl
       /\ IF Expected(p) = {}
          THEN /\ pc'[p] # "upsert"
               /\ run'[p].report[Len(run'[p].report)] =
                     [collection |-> run[p].collections[run[p].ci], count |-> 0]
          ELSE /\ pc'[p] = "upsert"
               /\ DOMAIN run'[p].pending = Expected(p)
               /\ \A id \in Expected(p) :
                     run'[p].pending[id] =
                        GetColl(srcC, run[p].sourceDb, run[p].collections[run[p].ci])[id]

UpsertStep(p) ==
    (pc[p] = "upsert" /\ run[p].mode = "incremental" /\ run'[p] # run[p]
        /\ pc'[p] # "failed")
    => \E id \in DOMAIN run[p].pending :
          LET name == run[p].collections[run[p].ci]
              after == GetColl(tgtC', run[p].targetDb, name)
          IN  /\ id \in DOMAIN after
              /\ \A k \in DOMAIN run[p].pending[id] : after[id][k] = run[p].pending[id][k]
              /\ \A other \in DOMAIN after \ {id} :
                    /\ other \in DOMAIN GetColl(tgtC, run[p].targetDb, name)
                    /\ after[other] = GetColl(tgtC, run[p].targetDb, name)[other]

\* C2: an incremental run selects from each non-checkpoint collection exactly the
\* documents whose updatedAt is strictly greater than the checkpoint stored in the
\* target (the epoch when no record exists), and upserts those and no others.
C2_CopiesIffAfterCheckpoint ==
    [][\A p \in Procs : SelectStep(p) /\ UpsertStep(p)]_vars

\* a run after a stored checkpoint selects one document and passes over another
C2_Witness ==
    \E p \in Procs :
        /\ pc[p] = "upsert"
        /\ run[p].mode = "incremental"
        /\ run[p].lastBackupAt > 0
        /\ run[p].found = 1
        /\ Cardinality(DOMAIN GetColl(srcC, AppDb, "orders")) = 2
        /\ \A id \in DOMAIN GetColl(srcC, AppDb, "orders") :
              "updatedAt" \in DOMAIN srcC[AppDb]["orders"][id]

\* C3: over sequential incremental runs, successful or failed, the stored
\* lastBackupAt never decreases.
C3_CheckpointMonotonic ==
    [][ReadCheckpoint(tgtC', AppDb) >= ReadCheckpoint(tgtC, AppDb)]_vars

\* a second run has overwritten the checkpoint of a first with a later one
C3_Witness ==
    \E p \in Procs :
        /\ pc[p] = "done"
        /\ run[p].mode = "incremental"
        /\ run[p].lastBackupAt > 0
        /\ ReadCheckpoint(tgtC, AppDb) > run[p].lastBackupAt

\* C4: the checkpoint an incremental run writes is the `now` it captured before
\* copying began, whatever the clock shows when the write happens; `now` is set
\* before the first collection is read.
C4_CheckpointIsStartTime ==
    \A p \in Procs :
        run[p].mode = "incremental" =>
            /\ pc[p] \in {"find", "upsert", "checkpoint"} =>
                  (run[p].now >= 1 /\ run[p].now <= clock)
            /\ pc[p] \in {"closeSource", "closeTarget", "done"} =>
                  (ReadCheckpoint(tgtC, run[p].targetDb) = run[p].now
                     /\ run[p].now >= 1 /\ run[p].now <= clock)

\* a run that took time: the checkpoint it wrote is older than its completion
C4_Witness ==
    \E p \in Procs :
        /\ pc[p] = "done"
        /\ run[p].mode = "incremental"
        /\ ReadCheckpoint(tgtC, AppDb) = run[p].now
        /\ run[p].now < clock
        /\ \E i \in 1..Len(run[p].report) : run[p].report[i].count > 0

\* the collections an incremental run copies
CopiedCollections(r) ==
    {i \in 1..Len(r.collections) : r.collections[i] # MetaColl}

\* C5: an incremental run that fails in its copy loop leaves the checkpoint record
\* as it was when the run began, and whenever a run has changed the checkpoint
\* record it has completed its copy loop for every collection.
C5_FailedRunKeepsCheckpoint ==
    \A p \in Procs :
        run[p].mode = "incremental" =>
            /\ (pc[p] = "failed" /\ run[p].failedAt \in CopyLoopPoints) =>
                  GetColl(tgtC, run[p].targetDb, MetaColl) = Before(run[p], MetaColl)
            /\ GetColl(tgtC, run[p].targetDb, MetaColl) # Before(run[p], MetaColl) =>
                  (/\ pc[p] \in {"closeSource", "closeTarget", "done"}
                   /\ Len(run[p].report) = Cardinality(CopiedCollections(run[p]))
                   /\ run[p].pending = Empty)

\* a run failed at the second collection after it had copied the first
C5_Witness ==
    \E p \in Procs :
        /\ pc[p] = "failed"
        /\ run[p].mode = "incremental"
        /\ run[p].failedAt \in {"find", "upsert"}
        /\ Len(run[p].report) = 1
        /\ run[p].report[1].count > 0
        /\ run[p].now > run[p].lastBackupAt
        /\ run[p].lastBackupAt > 0

\* C10: when an engine invocation that had opened its connections ends, by return
\* or by a failure in the middle of its loop, both connections are closed.
C10_ConnectionsReleased ==
    \A p \in Procs :
        (pc[p] \in {"done", "failed"}
            /\ run[p].failedAt \notin {"connectSource", "connectTarget"})
        => (~run[p].srcOpen /\ ~run[p].tgtOpen)

\* C6: after a successful delta run (the source untouched meanwhile), every source
\* document whose identity was absent from the same-named target collection before
\* the run is in the target, and every document the target held before the run is
\* there with the value it had.
C6_DeltaCompleteInsertOnly ==
    \A p \in Procs :
        (pc[p] = "done" /\ run[p].mode = "delta") =>
            \A name \in DOMAIN GetDb(srcC, run[p].sourceDb) :
                LET srcCol == GetColl(srcC, run[p].sourceDb, name)
                    before == Before(run[p], name)
                    after  == GetColl(tgtC, run[p].targetDb, name)
                IN  /\ \A id \in DOMAIN srcCol \ DOMAIN before : id \in DOMAIN after
                    /\ \A id \in DOMAIN before :
                          id \in DOMAIN after /\ after[id] = before[id]

\* C21: an incremental run has read the checkpoint record once as soon as it is past
\* the read and not before; until the read it has captured no start time, copied
\* nothing and built no report; it has written the checkpoint record once as soon as
\* it is past the write and not before; the write comes when the copy loop has ended
\* for every collection, with both connections still open, and until then the
\* checkpoint collection is as the run found it.
C21_CheckpointReadOnceWrittenOnce ==
    \A p \in Procs :
        run[p].mode = "incremental" =>
            LET r == run[p]
                at == IF pc[p] = "failed" THEN r.failedAt ELSE pc[p]
                beforeRead == at \in {"connectSource", "connectTarget", "readMeta"}
                afterWrite == at \in {"closeSource", "closeTarget", "done"}
            IN  /\ r.metaReads = IF beforeRead THEN 0 ELSE 1
                /\ r.metaWrites = IF afterWrite THEN 1 ELSE 0
                /\ beforeRead =>
                      (r.now = 0 /\ r.report = <<>> /\ r.collections = <<>>
                         /\ GetDb(tgtC, r.targetDb) = r.tgt0)
                /\ ~afterWrite =>
                      GetColl(tgtC, r.targetDb, MetaColl) = Before(r, MetaColl)
                /\ afterWrite =>
                      (Len(r.report) = Cardinality(CopiedCollections(r))
                         /\ r.pending = Empty)
                /\ at = "closeSource" => (r.srcOpen /\ r.tgtOpen)

\* a run over two collections has copied documents from both and then written the
\* checkpoint over the one it had read
C21_Witness ==
    \E p \in Procs :
        /\ pc[p] = "closeSource"
        /\ run[p].mode = "incremental"
        /\ run[p].metaReads = 1 /\ run[p].metaWrites = 1
        /\ run[p].lastBackupAt > 0
        /\ Len(run[p].report) = 2
        /\ run[p].report[1].count > 0
        /\ ReadCheckpoint(tgtC, run[p].targetDb) > run[p].lastBackupAt

\* C20: each upsert of an incremental run leaves the target document of that
\* identity equal to the source document the run read: the same fields with the
\* same values, and no field besides.
C20_UpsertReplaces ==
    [][\A p \in Procs :
          (pc[p] = "upsert" /\ run[p].mode = "incremental" /\ run'[p] # run[p]
              /\ pc'[p] # "failed")
          => \A id \in DOMAIN run[p].pending \ DOMAIN run'[p].pending :
                LET after == GetColl(tgtC', run[p].targetDb,
                                     run[p].collections[run[p].ci])
                IN  id \in DOMAIN after /\ after[id] = run[p].pending[id]]_vars

\* C19: when an incremental run that follows an earlier successful run has ended
\* successfully, every source document stamped with an updatedAt from the earlier
\* run's start time on (so written while that run was in progress, or between the
\* two runs) and before this run's start time is in the target with that stamp:
\* the earlier run or this one has copied it.
C19_NoModificationMissed ==
    \A p \in Procs :
        (pc[p] = "done" /\ run[p].mode = "incremental" /\ run[p].lastBackupAt > 0) =>
            \A name \in DOMAIN GetDb(srcC, run[p].sourceDb) \ {MetaColl} :
                LET srcCol == GetColl(srcC, run[p].sourceDb, name)
                    tgtCol == GetColl(tgtC, run[p].targetDb, name)
                IN  \A id \in DOMAIN srcCol :
                        ("updatedAt" \in DOMAIN srcCol[id]
                            /\ srcCol[id].updatedAt >= run[p].lastBackupAt
                            /\ srcCol[id].updatedAt < run[p].now)
                        => /\ id \in DOMAIN tgtCol
                           /\ "updatedAt" \in DOMAIN tgtCol[id]
                           /\ tgtCol[id].updatedAt = srcCol[id].updatedAt

-----------------------------------------------------------------------------
(* Properties of the weekly snapshot and of retention cleanup *)

\* the documents of a database, as (collection, _id) pairs
DocsOf(db) == UNION {{<<name, id>> : id \in DOMAIN db[name]} : name \in DOMAIN db}

\* a name that reads as the snapshot of a base for a week and a week-year
NamesWeek(dbName, base, week, year) ==
    /\ StartsWith(dbName, base \o WeekInfix)
    /\ LET parts == Split(SubSeq(dbName, Len(base \o WeekInfix) + 1, Len(dbName)))
       IN  /\ Len(parts) = 2
           /\ ToNumber(parts[1]) = Num(week)
           /\ ToNumber(parts[2]) = Num(year)

SnapshotsOfWeek(base, week, year) ==
    {d \in DOMAIN tgtC : NamesWeek(d, base, week, year)}

\* the snapshot database holds exactly the source's documents: every non-empty
\* source collection with the same documents, and no other collection
SnapshotEqualsSource(r) ==
    LET src == GetDb(srcC, r.sourceDb)
        snap == GetDb(tgtC, r.targetDb)
    IN  /\ \A name \in DOMAIN src : GetColl(tgtC, r.targetDb, name) = src[name]
        /\ \A name \in DOMAIN snap : name \in DOMAIN src /\ snap[name] # Empty

\* C7 as stated: after a successful full sync (the source untouched meanwhile) the
\* target holds exactly one snapshot database for that base and ISO week, and it
\* holds exactly the source's documents.
C7_ExactlyOneSnapshot ==
    \A p \in Procs :
        (pc[p] = "done" /\ run[p].mode = "fullsync") =>
            /\ Cardinality(SnapshotsOfWeek(run[p].sourceDb, run[p].week, run[p].year)) = 1
            /\ SnapshotEqualsSource(run[p])

\* C7 (amended): after a successful full sync (the source untouched meanwhile) the
\* week's snapshot holds exactly the source's documents, whatever an earlier run of
\* the week had left there; the target holds one snapshot database for that base and
\* week when the source holds a document, and none when the source is empty.
C7_SnapshotIsSecondRun ==
    \A p \in Procs :
        (pc[p] = "done" /\ run[p].mode = "fullsync") =>
            /\ SnapshotEqualsSource(run[p])
            /\ SnapshotsOfWeek(run[p].sourceDb, run[p].week, run[p].year) =
                  IF DocsOf(GetDb(srcC, run[p].sourceDb)) = {} THEN {}
                  ELSE {run[p].targetDb}

\* a second run of the week has replaced a snapshot that held a document the source
\* has lost and lacked one the source has gained
C7_Witness ==
    \E p \in Procs :
        /\ pc[p] = "done"
        /\ run[p].mode = "fullsync"
        /\ run[p].targetDb \in DOMAIN run[p].cluster0
        /\ DocsOf(run[p].cluster0[run[p].targetDb]) \ DocsOf(GetDb(srcC, run[p].sourceDb)) # {}
        /\ DocsOf(GetDb(srcC, run[p].sourceDb)) \ DocsOf(run[p].cluster0[run[p].targetDb]) # {}

SnapshotYears == 2019..2022

\* (year, week) lexicographically before (cutoffYear, cutoffWeek)
LexBefore(year, week, cutoffYear, cutoffWeek) ==
    year < cutoffYear \/ (year = cutoffYear /\ week < cutoffWeek)

IsNumeric(str) == str # <<>> /\ \A i \in 1..Len(str) : IsDigit(str[i])

\* a name with the prefix of a base whose rest is not <digits>-<digits>
Malformed(dbName, base) ==
    /\ StartsWith(dbName, base \o WeekInfix)
    /\ LET parts == Split(SubSeq(dbName, Len(base \o WeekInfix) + 1, Len(dbName)))
       IN  ~(Len(parts) = 2 /\ IsNumeric(parts[1]) /\ IsNumeric(parts[2]))

\* C9: a finished cleanup has dropped no database whose name has the prefix of a
\* listed base and a malformed week-year suffix.
C9_MalformedSkipped ==
    \A p \in Procs :
        (pc[p] = "done" /\ run[p].mode = "cleanup") =>
            \A n \in DOMAIN run[p].cluster0 :
                (\E b \in 1..Len(run[p].dbs) : Malformed(n, run[p].dbs[b]))
                    => n \in DOMAIN tgtC

\* the name base-week-W-Y of the ISO week W and week-year Y that instant t lies in
WeekNameAt(base, t) ==
    base \o <<"-", "w", "e", "e", "k", "-">> \o NumberToString(GetISOWeek(t))
         \o <<"-">> \o NumberToString(GetISOWeekYear(t))

\* the instants of a year and more around the clock
Instants == 0..(MaxClock + 53)

\* C13: a full sync run works on the database named base-week-W-Y of the ISO week of
\* its start instant, a name no other ISO week yields, and at every point of the run
\* every other database of the target cluster (another week's snapshot, another
\* base's, or an unrelated one) is there exactly as it was when the run began.
C13_WritesOnlyOwnSnapshot ==
    \A p \in Procs :
        run[p].mode = "fullsync" =>
            /\ run[p].targetDb = WeekNameAt(run[p].sourceDb, run[p].now)
            /\ \A t \in Instants :
                  (WeekNameAt(run[p].sourceDb, t) = run[p].targetDb)
                     <=> (GetISOWeek(t) = GetISOWeek(run[p].now)
                            /\ GetISOWeekYear(t) = GetISOWeekYear(run[p].now))
            /\ \A d \in (DOMAIN tgtC \cup DOMAIN run[p].cluster0) \ {run[p].targetDb} :
                  /\ d \in DOMAIN tgtC
                  /\ d \in DOMAIN run[p].cluster0
                  /\ tgtC[d] = run[p].cluster0[d]

\* a run has written this week's snapshot next to the snapshot of the week before
C13_Witness ==
    \E p \in Procs :
        /\ pc[p] = "done"
        /\ run[p].mode = "fullsync"
        /\ run[p].targetDb \in DOMAIN tgtC
        /\ WeekNameAt(run[p].sourceDb, run[p].now - 1) # run[p].targetDb
        /\ WeekNameAt(run[p].sourceDb, run[p].now - 1) \in DOMAIN run[p].cluster0
        /\ WeekNameAt(run[p].sourceDb, run[p].now - 1) \in DOMAIN tgtC

\* the sum of the counts of a report
RECURSIVE SumCounts(_)
SumCounts(report) ==
    IF report = <<>> THEN 0 ELSE Head(report).count + SumCounts(Tail(report))

\* C24: the report of a successful full sync (the source untouched meanwhile) has
\* one entry for each source collection, with the number of its documents; a source
\* collection without documents has an entry with zero and is no collection of the
\* snapshot database; totalDocs is the sum of the entries and the number of
\* documents in the snapshot database.
C24_FullSyncReport ==
    \A p \in Procs :
        (pc[p] = "done" /\ run[p].mode = "fullsync") =>
            LET r == run[p]
                src == GetDb(srcC, r.sourceDb)
                snap == GetDb(tgtC, r.targetDb)
            IN  /\ {r.collections[i] : i \in 1..Len(r.collections)} = DOMAIN src
                /\ Len(r.collections) = Cardinality(DOMAIN src)
                /\ Len(r.report) = Len(r.collections)
                /\ \A i \in 1..Len(r.report) :
                      /\ r.report[i].collection = r.collections[i]
                      /\ r.report[i].count =
                            Cardinality(DOMAIN src[r.collections[i]])
                      /\ r.report[i].count = 0 => r.collections[i] \notin DOMAIN snap
                /\ r.totalDocs = SumCounts(r.report)
                /\ r.totalDocs = Cardinality(DocsOf(snap))

\* a full sync has copied two orders and reported zero for the empty logs
C24_Witness ==
    \E p \in Procs :
        /\ pc[p] = "done"
        /\ run[p].mode = "fullsync"
        /\ run[p].totalDocs = 2
        /\ Len(run[p].report) = 2
        /\ \E i \in 1..2 : run[p].report[i] = [collection |-> "logs", count |-> 0]
        /\ DOMAIN GetDb(tgtC, run[p].targetDb) = {"orders"}

\* C11: a full sync that fails leaves the week's snapshot database as the run found
\* it: a snapshot that existed when the run began is still there with the same
\* collections and documents, not dropped and not partly rewritten.
C11_FailedRunKeepsSnapshot ==
    \A p \in Procs :
        (pc[p] = "failed" /\ run[p].mode = "fullsync"
            /\ run[p].targetDb \in DOMAIN run[p].cluster0)
        => /\ run[p].targetDb \in DOMAIN tgtC
           /\ tgtC[run[p].targetDb] = run[p].cluster0[run[p].targetDb]

-----------------------------------------------------------------------------
(* Properties of delta backups of a database that holds a checkpoint collection *)

\* C12: from the call of a delta run to its end, the checkpoint collection of the
\* target database is as it was when the run was called.
C12_DeltaLeavesCheckpoint ==
    \A p \in Procs :
        run[p].mode = "delta" =>
            GetColl(tgtC, run[p].targetDb, MetaColl) = Before(run[p], MetaColl)

\* the documents of a collection that an incremental run with this checkpoint copies
ChangedSince(coll, t) ==
    {id \in DOMAIN coll : "updatedAt" \in DOMAIN coll[id] /\ coll[id].updatedAt > t}

\* a sequence without the checkpoint collection's name, order kept
RECURSIVE WithoutMeta(_)
WithoutMeta(names) ==
    IF names = <<>> THEN <<>>
    ELSE IF Head(names) = MetaColl THEN WithoutMeta(Tail(names))
    ELSE <<Head(names)>> \o WithoutMeta(Tail(names))

\* C22: the report of a successful incremental run (the source untouched meanwhile)
\* has one entry for each source collection other than _backup_meta, in the order
\* the store enumerated the collections, with the number of documents that were
\* changed since the checkpoint, zero included, and those documents are in the
\* target; there is no entry for _backup_meta.
C22_ReportPerCollection ==
    \A p \in Procs :
        (pc[p] = "done" /\ run[p].mode = "incremental") =>
            LET r == run[p]
                names == WithoutMeta(r.collections)
            IN  /\ {r.collections[i] : i \in 1..Len(r.collections)}
                      = DOMAIN GetDb(srcC, r.sourceDb)
                /\ Len(r.collections) = Cardinality(DOMAIN GetDb(srcC, r.sourceDb))
                /\ Len(r.report) = Len(names)
                /\ \A i \in 1..Len(r.report) :
                      LET srcCol == GetColl(srcC, r.sourceDb, names[i])
                          tgtCol == GetColl(tgtC, r.targetDb, names[i])
                      IN  /\ r.report[i].collection = names[i]
                          /\ r.report[i].collection # MetaColl
                          /\ r.report[i].count =
                                Cardinality(ChangedSince(srcCol, r.lastBackupAt))
                          /\ \A id \in ChangedSince(srcCol, r.lastBackupAt) :
                                /\ id \in DOMAIN tgtCol
                                /\ tgtCol[id].updatedAt = srcCol[id].updatedAt

\* a run over orders, users and _backup_meta has reported a count for one collection
\* and zero for the other
C22_Witness ==
    \E p \in Procs :
        /\ pc[p] = "done"
        /\ run[p].mode = "incremental"
        /\ Len(run[p].collections) = 3
        /\ Len(run[p].report) = 2
        /\ \E i, j \in 1..2 : run[p].report[i].count > 0 /\ run[p].report[j].count = 0
        /\ run[p].collections[2] = MetaColl

\* no source document carries an updatedAt later than t
NothingAfter(db, t) ==
    \A name \in DOMAIN db \ {MetaColl} : ChangedSince(db[name], t) = {}

\* C23: when an incremental run that read a stored checkpoint has ended successfully
\* and no source document has an updatedAt later than that checkpoint (the source
\* untouched meanwhile), the run has reported zero for every collection, every
\* target collection other than the checkpoint's is as the run found it, and the
\* checkpoint is the run's start time.
C23_RerunIsNoOp ==
    \A p \in Procs :
        (pc[p] = "done" /\ run[p].mode = "incremental" /\ run[p].lastBackupAt > 0
            /\ NothingAfter(GetDb(srcC, run[p].sourceDb), run[p].lastBackupAt))
        => /\ \A i \in 1..Len(run[p].report) : run[p].report[i].count = 0
           /\ Len(run[p].report) = Len(WithoutMeta(run[p].collections))
           /\ \A name \in (DOMAIN GetDb(tgtC, run[p].targetDb)
                             \cup DOMAIN run[p].tgt0) \ {MetaColl} :
                 GetColl(tgtC, run[p].targetDb, name) = Before(run[p], name)
           /\ ReadCheckpoint(tgtC, run[p].targetDb) = run[p].now

\* a second run, started later than the first, has found nothing to copy: the order
\* the first run copied is in the target, and the checkpoint has moved
C23_Witness ==
    \E p \in Procs :
        /\ pc[p] = "done"
        /\ run[p].mode = "incremental"
        /\ run[p].lastBackupAt > 0
        /\ run[p].now > run[p].lastBackupAt
        /\ NothingAfter(GetDb(srcC, run[p].sourceDb), run[p].lastBackupAt)
        /\ \E id \in DOMAIN GetColl(srcC, run[p].sourceDb, "orders") :
              /\ id \in DOMAIN GetColl(tgtC, run[p].targetDb, "orders")
              /\ GetColl(tgtC, run[p].targetDb, "orders")[id]
                    = GetColl(srcC, run[p].sourceDb, "orders")[id]
        /\ Len(run[p].report) = 2
        /\ ReadCheckpoint(tgtC, run[p].targetDb) = run[p].now

-----------------------------------------------------------------------------
(* Properties of the many-databases functions *)

\* an engine call made by the many-databases function has not returned yet
EngineRunning == \E p \in Procs : pc[p] # "idle" /\ run[p].mode # "cleanup"

\* C14: a many-databases function (incremental, delta or full sync) calls the
\* single-database engine for the names of its list in list order, once each; it
\* makes the call for the next name only when the call before has returned, and the
\* results of the outer report are those of the names in list order.
C14_ManyInListOrder ==
    many.phase # "idle" =>
        /\ Len(many.calls) <= Len(many.dbList)
        /\ many.calls = SubSeq(many.dbList, 1, Len(many.calls))
        /\ Len(many.results) <= Len(many.calls)
        /\ Len(many.calls) <= Len(many.results) + 1
        /\ EngineRunning => Len(many.calls) = Len(many.results) + 1
        /\ \A p \in Procs :
              (pc[p] # "idle" /\ run[p].mode # "cleanup") =>
                  /\ run[p].mode = many.mode
                  /\ run[p].sourceDb = many.dbList[Len(many.calls)]
        /\ \A i \in 1..Len(many.results) :
              /\ many.results[i].mode = many.mode
              /\ many.results[i].sourceDb = many.dbList[i]
        /\ many.phase \in {"cleanup", "cleaning", "done"} =>
              (many.calls = many.dbList /\ Len(many.results) = Len(many.dbList))

\* a delta over two databases has returned its report, on a target that earlier
\* incremental and full-sync calls over several databases have written
C14_Witness ==
    /\ many.phase = "done"
    /\ many.mode = "delta"
    /\ many.dbList = <<BaseB, BaseA>>
    /\ Len(many.results) = 2
    /\ IncrementalId \in DOMAIN GetColl(tgtC, BaseA, MetaColl)
    /\ IncrementalId \in DOMAIN GetColl(tgtC, BaseB, MetaColl)
    /\ WeekNameAt(BaseA, clock) \in DOMAIN tgtC
    /\ WeekNameAt(BaseB, clock) \in DOMAIN tgtC

\* C15: fullSyncManyDatabases calls cleanupSnapshots once, after the full sync of
\* every listed database has returned, with the list it was given and with the
\* keepWeeks it was given (26 when left out; a supplied 0 stays 0); the other
\* many-databases functions never call it, and a failed full sync ends the function
\* before the cleanup.
C15_CleanupOnceAfterAll ==
    LET k == IF many.keepArg.given THEN many.keepArg.v ELSE 26
    IN  /\ many.mode \in {"incremental", "delta"} => many.cleanups = <<>>
        /\ \A p \in Procs : (pc[p] # "idle" /\ run[p].mode = "cleanup") =>
              (many.phase = "cleaning" /\ run[p].dbs = many.dbList
                 /\ run[p].keepWeeks = k)
        /\ many.mode = "fullsync" =>
              /\ Len(many.cleanups) <= 1
              /\ many.phase \in {"loop", "cleanup"} => many.cleanups = <<>>
              /\ many.phase \in {"cleaning", "done"} => Len(many.cleanups) = 1
              /\ \A i \in 1..Len(many.cleanups) :
                    /\ many.cleanups[i].dbs = many.dbList
                    /\ many.cleanups[i].keepWeeks = k
                    /\ many.cleanups[i].after = Len(many.dbList)
                    /\ Len(many.calls) = Len(many.dbList)

\* a full sync of two databases called with keepWeeks 0 has returned after its one
\* cleanup, which dropped the snapshot of an earlier week and kept this week's
C15_Witness ==
    /\ many.phase = "done"
    /\ many.mode = "fullsync"
    /\ many.dbList = <<BaseA, BaseB>>
    /\ many.keepArg = Arg(0)
    /\ Len(many.cleanups) = 1
    /\ WeekNameAt(BaseA, clock) \in DOMAIN tgtC
    /\ WeekNameAt(BaseB, clock) \in DOMAIN tgtC
    /\ Name_Old \notin DOMAIN tgtC

\* C17: when an engine call has failed at the connection to the source or to the
\* target, the target cluster is exactly as it was when the call was made (nothing
\* written, nothing dropped, the checkpoint included), the call has built no report
\* and adds no result to the outer report of a many-databases function, and the
\* connection that failed, and any the call had not reached, is not open.
C17_ConnectFailureIsClean ==
    \A p \in Procs :
        (pc[p] = "failed" /\ run[p].failedAt \in {"connectSource", "connectTarget"})
        => /\ tgtC = run[p].cluster0
           /\ run[p].report = <<>>
           /\ run[p].totalDocs = 0
           /\ run[p].collections = <<>>
           /\ ~run[p].tgtOpen
           /\ run[p].failedAt = "connectSource" => ~run[p].srcOpen
           /\ (many.phase # "idle" /\ run[p].mode # "cleanup") =>
                 Len(many.results) < Len(many.calls)

\* a full sync has failed at the connection to the target, which holds the week's
\* snapshot and the checkpoint of an earlier incremental backup
C17_Witness ==
    \E p \in Procs :
        /\ pc[p] = "failed"
        /\ run[p].mode = "fullsync"
        /\ run[p].failedAt = "connectTarget"
        /\ run[p].targetDb \in DOMAIN tgtC
        /\ IncrementalId \in DOMAIN GetColl(tgtC, BaseA, MetaColl)

\* a database as a snapshot shows it: its collections that hold a document
NonEmpty(db) == [n \in {c \in DOMAIN db : db[c] # Empty} |-> db[n]]

\* C18: the snapshot database that a successful full sync leaves holds exactly the
\* documents the source database held at one instant between the call and the
\* return, also when the source is written while the collections are copied.
C18_PointInTime ==
    \A p \in Procs :
        (pc[p] = "done" /\ run[p].mode = "fullsync") =>
            \E s \in run[p].seen : NonEmpty(s) = GetDb(tgtC, run[p].targetDb)

-----------------------------------------------------------------------------
(* Properties of overlapping incremental runs *)

\* C16: nothing guards the checkpoint write of an incremental run: whatever
\* checkpoint is stored when the run reaches the write, a newer one written by an
\* overlapping run included, the write stores the run's own start time, so the
\* stored lastBackupAt can decrease.
C16_StaleOverwrite ==
    [][\A p \in Callers :
          (pc[p] = "checkpoint" /\ pc'[p] = "closeSource") =>
              ReadCheckpoint(tgtC', run[p].targetDb) = run[p].now]_vars

\* the lost update has happened: run q, started later, wrote its checkpoint; run p,
\* which had read the checkpoint before that, then wrote its older start time over it
C16_Witness ==
    \E p, q \in Callers :
        /\ p # q
        /\ run[p].mode = "incremental" /\ run[q].mode = "incremental"
        /\ pc[p] \in {"closeSource", "closeTarget", "done"}
        /\ pc[q] \in {"closeSource", "closeTarget", "done"}
        /\ run[p].now < run[q].now
        /\ run[p].lastBackupAt < run[q].now
        /\ ReadCheckpoint(tgtC, AppDb) = run[p].now

-----------------------------------------------------------------------------
(* Properties of fullSyncManyDatabases while the weeks pass *)

\* C25: while and after the cleanup that a fullSyncManyDatabases call runs, every
\* snapshot database that the call's full syncs created is on the target cluster.
C25_OwnSnapshotsSurviveCleanup ==
    (many.mode = "fullsync" /\ many.phase \in {"cleaning", "done"}) =>
        \A i \in 1..Len(many.results) : many.results[i].targetDb \in DOMAIN tgtC

-----------------------------------------------------------------------------
(* The snapshot name: built by fullSyncOneDatabase, selected and parsed by      *)
(* cleanupSnapshots                                                            *)

\* base names, with and without hyphens and digits
Base1 == <<"1">>
BaseA1 == <<"a", "-", "1">>
BaseWeek == <<"a", "-", "w", "e", "e", "k", "-", "1">>
NameBases == {BaseA, BaseB, Base1, BaseA1, BaseWeek}

\* ISO week-years, one of them with 53 weeks
NameYears == {2019, 2020, 2021}

\* const week = getISOWeek(now); const year = getISOWeekYear(now);
\* const targetDbName = `${dbName}-week-${week}-${year}`, for any week of any year
BuildName(p) ==
    /\ pc[p] = "idle"
    /\ \E dbName \in NameBases : \E year \in NameYears : \E week \in 1..WeeksInYear(year) :
          run' = [run EXCEPT ![p] =
                    [IdleRun EXCEPT !.mode = "name", !.sourceDb = dbName,
                                    !.week = week, !.year = year,
                                    !.targetDb = SnapshotDbName(dbName, week, year)]]
    /\ pc' = [pc EXCEPT ![p] = "built"]
    /\ UNCHANGED <<crud, clock, srcC, tgtC, app, many>>

\* const prefix = `${base}-week-`; matches = names.filter(name => name.startsWith(prefix))
SelectName(p) ==
    /\ pc[p] = "built"
    /\ LET prefix == run[p].sourceDb \o WeekInfix
           matches == {name \in {run[p].targetDb} : StartsWith(name, prefix)}
       IN  /\ run' = [run EXCEPT ![p].names = {run[p].targetDb}, ![p].matches = matches]
           /\ pc' = [pc EXCEPT ![p] = IF matches = {} THEN "done" ELSE "selected"]
    /\ UNCHANGED <<crud, clock, srcC, tgtC, app, many>>

\* parts = dbName.replace(prefix, "").split("-"); week = Number(parts[0]);
\* year = Number(parts[1])
ParseName(p) ==
    /\ pc[p] = "selected"
    /\ \E dbName \in run[p].matches :
          LET prefix == run[p].sourceDb \o WeekInfix
              parts == Split(ReplaceFirst(dbName, prefix))
          IN  run' = [run EXCEPT ![p].parsedWeek = ToNumber(At(parts, 0)),
                                 ![p].parsedYear = ToNumber(At(parts, 1))]
    /\ pc' = [pc EXCEPT ![p] = "done"]
    /\ UNCHANGED <<crud, clock, srcC, tgtC, app, many>>

InitNames ==
    /\ clock = 1
    /\ srcC = [d \in {} |-> Empty]
    /\ tgtC = [d \in {} |-> Empty]
    /\ pc = [p \in Procs |-> "idle"]
    /\ run = [p \in Procs |-> IdleRun]
    /\ app = "names"
    /\ many = IdleMany
    /\ CrudIdle

NextNames ==
    \/ \E p \in Procs : BuildName(p)
    \/ \E p \in Procs : SelectName(p)
    \/ \E p \in Procs : ParseName(p)
    \/ \E p \in Procs : Return(p)

SpecNames == InitNames /\ [][NextNames]_vars

\* C27: the name built for a base, an ISO week and an ISO week-year is among the names
\* the cleanup selects for that base, and the week and year the cleanup parses out of
\* it are the week and year it was built from.
C27_NameRoundTrip ==
    \A p \in Procs :
        LET r == run[p] IN
        r.mode = "name" =>
            /\ pc[p] \in {"selected", "done"} => r.targetDb \in r.matches
            /\ pc[p] = "done" => (r.parsedWeek = Num(r.week) /\ r.parsedYear = Num(r.year))

\* the name of week 5 of 2020 of a base that itself contains "-week-" and a digit has
\* been selected and parsed
C27_Witness ==
    \E p \in Procs :
        /\ run[p].mode = "name" /\ pc[p] = "done"
        /\ run[p].sourceDb = BaseWeek /\ run[p].week = 5 /\ run[p].year = 2020
        /\ run[p].matches # {}

-----------------------------------------------------------------------------
(* Frame of the retention cleanup *)

\* the name begins with base + "-week-" for a base of the list
ListedSnapshotName(dbName, dbs) ==
    \E b \in 1..Len(dbs) :
        LET n == Len(dbs[b]) + Len(WeekInfix)
        IN  /\ Len(dbName) >= n
            /\ \A k \in 1..n : dbName[k] = (dbs[b] \o WeekInfix)[k]

\* C26: throughout a cleanupSnapshots call every database of the target cluster whose
\* name does not begin with base + "-week-" for a listed base is there with the content
\* it had at the call, nothing is created or rewritten, and once the call is done a
\* second pass with the same cutoff finds no database to drop.
C26_CleanupFrame ==
    \A p \in Procs :
        LET r == run[p] IN
        r.mode = "cleanup" =>
            /\ \A d \in DOMAIN r.cluster0 :
                   ~ListedSnapshotName(d, r.dbs) => (d \in DOMAIN tgtC /\ tgtC[d] = r.cluster0[d])
            /\ \A d \in DOMAIN tgtC : d \in DOMAIN r.cluster0 /\ tgtC[d] = r.cluster0[d]
            /\ pc[p] = "done" =>
                   OldSnapshots(DOMAIN tgtC, r.dbs, r.cutoffWeek, r.cutoffYear) = {}

\* a cleanup for base a alone has finished: it dropped a snapshot of a and left the
\* old snapshot of base a-b, or the database named like the source, in place
C26_Witness ==
    \E p \in Procs :
        /\ run[p].mode = "cleanup" /\ pc[p] = "done" /\ run[p].dbs = <<BaseA>>
        /\ \E d \in DOMAIN run[p].cluster0 : d \notin DOMAIN tgtC
        /\ \E d \in {Name_OtherBase, Name_Source} : d \in DOMAIN tgtC

-----------------------------------------------------------------------------
(* A many-databases function whose engine call fails *)

\* what a returned engine call has left in the target: the documents of the source,
\* which is not written meanwhile, and for an incremental backup its checkpoint
Remains(res) ==
    /\ res.targetDb \in DOMAIN tgtC
    /\ GetColl(tgtC, res.targetDb, "orders") = GetColl(srcC, res.sourceDb, "orders")
    /\ res.mode = "incremental" =>
           IncrementalId \in DOMAIN GetColl(tgtC, res.targetDb, MetaColl)

\* C28: a many-databases function goes past a name only with the result of its engine
\* call; when the engine call for the k-th name has failed, the function has rejected
\* (it returns no report), no engine call was made for a later name, no cleanup was
\* called, and what the calls for the first k-1 names left in the target is there.
C28_FailureStopsTheRun ==
    /\ (many.phase = "loop" /\ ~EngineRunning) => Len(many.calls) = Len(many.results)
    /\ many.phase \in {"cleanup", "cleaning", "done"} =>
           Len(many.results) = Len(many.dbList)
    /\ (many.phase = "failed" /\ Len(many.results) < Len(many.calls)) =>
           /\ Len(many.calls) = Len(many.results) + 1
           /\ \A p \in Procs : pc[p] = "idle"
           /\ many.cleanups = <<>>
           /\ \A i \in 1..Len(many.results) : Remains(many.results[i])
    /\ \A p \in Procs :
           (many.phase = "loop" /\ pc[p] = "failed") =>
               /\ many.cleanups = <<>>
               /\ \A i \in 1..(Len(many.calls) - 1) : Remains(many.results[i])

-----------------------------------------------------------------------------
(* Identities a delta run finds in the target *)

\* C29: a delta run never hands insertMany a document whose identity is in the target
\* collection, and never fails on the identities it read from the target, neither
\* when it turns them into ObjectIds nor with a duplicate key.
C29_PresentIdentitiesAreSkipped ==
    \A p \in Procs :
        LET r == run[p] IN
        r.mode = "delta" =>
            /\ r.failedAt \notin {"objectId", "duplicateKey"}
            /\ pc[p] = "insertMany" =>
                   DOMAIN r.pending \cap
                       DOMAIN GetColl(tgtC, r.targetDb, r.collections[r.ci]) = {}

-----------------------------------------------------------------------------
(* The cached client of the CRUD accessor *)

\* C30: whatever the interleaving of connect() calls, `new MongoClient` has run at most
\* once, and every instance whose collection is set holds the client that
\* global._mongoClient holds.
C30_SingleCachedClient ==
    /\ created <= 1
    /\ \A i \in Instances :
           instance[i].collection => instance[i].client = mongoClient
====
